---- MODULE Spec2Model ----
(***************************************************************************)
(* Tour-video generation pipeline of the keylia platform:                  *)
(*   - the orchestrator task generate_tour_video_task, its thread-pool     *)
(*     fan-out, the task queue's retry / redelivery and the dead-letter    *)
(*     store (workers/tasks/tour_video.py, workers/celery_app.py);         *)
(*   - the HTTP handlers that read and cancel a render job                 *)
(*     (api/v1/tour_videos.py);                                            *)
(*   - the idempotency guard of generate_tour_video_from_listing.          *)
(***************************************************************************)
EXTENDS Integers, Sequences, FiniteSets, TLC

(***************************************************************************)
(* Bounds of the model and constants of the program                        *)
(***************************************************************************)

\* photos available to a submission in the fan-out specification
MaxPhotos == 7

\* photos available to a submission in the job-lifecycle specification
MaxPhotosJob == 2

\* worker losses (redeliveries) explored per job
MaxWorkerLost == 1

\* cancel requests explored per job
MaxCancels == 1

MAX_PARALLEL_VIDEO_GENERATIONS == 5

max_retries == 3

DLQ_KEEP == 1000

Durations == {15, 30, 60}

DURATION_SCENE_CONFIG ==
    [d \in Durations |->
        CASE d = 15 -> [scene_count |-> 3, scene_duration_ms |-> 5000]
          [] d = 30 -> [scene_count |-> 5, scene_duration_ms |-> 6000]
          [] d = 60 -> [scene_count |-> 8, scene_duration_ms |-> 7500]]

Min(a, b) == IF a <= b THEN a ELSE b

\* scene_count = min(config["scene_count"], len(photos))
SceneCount(d, n_photos) == Min(DURATION_SCENE_CONFIG[d].scene_count, n_photos)

RenderStatus == {"queued", "processing", "completed", "failed", "cancelled"}

Terminal == {"completed", "failed", "cancelled"}

Steps == {"script", "voiceover", "videos", "composition", "upload"}

None == "None"

\* a None entry of video_clips ([None] * len(scenes_data))
NoClip == [scene |-> -1]

\* a clip future that holds no result yet
NoClipResult == <<-1, NoClip>>

(***************************************************************************)
(* State                                                                   *)
(***************************************************************************)
VARIABLES
    \* arguments of the task
    scenes_data,          \* the scenes' sequence_order values, <<0, .., N-1>>
    \* RenderJob / Project rows
    status,
    progress_percent,
    output_url,
    error_message,
    step_progress,        \* settings["step_progress"]: step -> [status |-> ..]
    project_status,
    \* one execution of generate_tour_video_task
    pc,                   \* position of the orchestrator ("idle": not running)
    exc,                  \* the exception in flight, None when there is none
    voiceover_future,     \* "none" | "pending" | "running" | "ok" | "raised"
    video_futures,        \* scene index -> state of its future
    clip_results,         \* scene index -> <<idx, clip>> returned by the wrapper
    fi,                   \* index into futures of the result loop
    voiceover_result,
    video_clips,          \* the list handed to composition
    completed_count,
    composed,             \* concat order written by composite_video_sync
    out_of_order,         \* a clip returned while an earlier scene's had not
    \* what the attempt did
    voiceover_requests,
    clip_requests,
    compose_calls,
    upload_calls,
    failed_writes,
    \* task queue
    queue_msg,            \* a message for the task waits in the broker
    task_state,           \* PENDING | STARTED | RETRY | FAILURE | SUCCESS
    retries,              \* request.retries
    attempts_raised,      \* executions that ended by raising
    worker_lost,          \* worker losses so far
    dlq_failures,         \* keylia:dlq:failures, oldest first
    dlq_by_id,            \* keylia:dlq:by_id
    \* clients
    cancels,
    cancelled_in,         \* status the job had when a cancel request hit it
    polled_progress       \* progress_percent of the last poll that read "processing"

jobVars == <<status, progress_percent, output_url, error_message, step_progress,
             project_status>>

runVars == <<pc, exc, voiceover_future, video_futures, clip_results, fi,
             voiceover_result, video_clips, completed_count, composed,
             out_of_order>>

countVars == <<voiceover_requests, clip_requests, compose_calls, upload_calls,
               failed_writes>>

queueVars == <<queue_msg, task_state, retries, attempts_raised, worker_lost,
               dlq_failures, dlq_by_id>>

clientVars == <<cancels, cancelled_in, polled_progress>>

pipelineVars == <<scenes_data, jobVars, runVars, countVars, queueVars, clientVars>>

\* generate_tour_video_from_listing and its idempotency cache
VARIABLES
    req_pc,               \* request -> position of its handler
    req_key,              \* request -> X-Idempotency-Key header (0: absent)
    req_org,              \* request -> organization of the caller
    req_at,               \* request -> time the request arrived
    req_fault,            \* request -> a cache operation failed during it
    req_response,         \* request -> what the handler returned
    redis_client,         \* the module global _redis_client is assigned
    redis_up,             \* the Redis server answers
    cache,                \* key -> None | [value |-> .., expires_at |-> ..]
    now,                  \* wall clock, seconds
    advances,             \* clock advances so far
    created,              \* Project/RenderJob pairs committed, in order
    enqueued              \* ids of the jobs whose task was enqueued

idemVars == <<req_pc, req_key, req_org, req_at, req_fault, req_response,
              redis_client, redis_up, cache, now, advances, created, enqueued>>

\* CircuitBreaker (services/circuit_breaker.py) and its callers
VARIABLES
    breaker,              \* [state, failure_count, success_count, last_failure_time]
    time_now,             \* time.time(), seconds
    call_pc,              \* caller -> "idle" | "in_flight"
    call_admitted,        \* caller -> breaker state its call was let through in
    call_outcome,         \* caller -> how its last call ended
    call_retry_after,     \* caller -> retry_after carried by its CircuitBreakerOpen
    calls_made,           \* calls of CircuitBreaker.call so far
    invoked,              \* invocations of the wrapped operation so far
    streak,               \* failed calls recorded in a row, no success between
    last_caller,          \* caller whose call began or ended in the last step
    ho_successes          \* successes recorded since the breaker went half-open

breakerVars == <<breaker, time_now, call_pc, call_admitted, call_outcome,
                 call_retry_after, calls_made, invoked, streak, last_caller,
                 ho_successes>>

\* dead-letter store (workers/celery_app.py) beyond the one pipeline task
VARIABLES
    failed_total,         \* tasks that have failed permanently so far
    replayed              \* the last retry_failed_task call and what it did

dlqVars == <<failed_total, replayed>>

\* the listing the task was enqueued with, and the prompt sent to the LLM
VARIABLES
    listing_data,         \* [address, neighborhood, features]
    llm_prompt            \* user prompt last passed to client.messages.create

promptVars == <<listing_data, llm_prompt>>

\* generate_tour_video_from_listing building a project's scenes
VARIABLES
    duration_seconds,     \* request.duration_seconds
    photos,               \* ids of the listing's photos, in the order used
    scenes,               \* Scene rows added so far
    scene_count_setting,  \* render_job.settings["scene_count"]
    scenes_pc             \* "order" | "scenes" | "enqueue" | "done"

sceneVars == <<duration_seconds, photos, scenes, scene_count_setting, scenes_pc>>

\* generate_script_sync reading the provider's response
VARIABLES
    response_text,   \* response.content[0].text, as a sequence of tokens
    script_result,   \* what generate_script_sync returned or raised
    parse_pc         \* "idle" | "parse" | "done"

parseVars == <<response_text, script_result, parse_pc>>

\* sanitize_text applied to one text
VARIABLES
    san_input,           \* the text argument, as a sequence of tokens
    san_allow_newlines,  \* the allow_newlines argument
    san_output,          \* the text returned
    san_pc               \* "idle" | "call" | "done"

sanVars == <<san_input, san_allow_newlines, san_output, san_pc>>

\* stream_progress.event_generator serving one client
VARIABLES
    stream_pc,      \* "idle" | "open" | "closed"
    last_progress,  \* the generator's last_progress
    emitted         \* statuses of the snapshots the stream has sent

streamVars == <<stream_pc, last_progress, emitted>>

\* RateLimitMiddleware in front of the application, one client key, "ai" tier
VARIABLES
    zset,          \* Redis sorted set of the key: scores of its members
    timestamps,    \* _memory_store entry of the key: entry.timestamps
    rl_now,        \* time.time()
    forwarded,     \* times of the requests passed on to call_next
    rl_status,     \* status of the last response (0: none yet)
    rl_requests    \* requests made

rateVars == <<zset, timestamps, rl_now, forwarded, rl_status, rl_requests>>

\* a RenderJob made by create_render_job and its render_video task
VARIABLES
    render_status,      \* RenderJob.status of that job ("none": not created)
    render_task_state,  \* state of the Celery task in the result backend
    render_pc,          \* position of render_video_task
    generated_clips     \* clips render_video_task has generated

renderVars == <<render_status, render_task_state, render_pc, generated_clips>>

extraVars == <<sanVars, streamVars, rateVars, renderVars>>

baseSvcVars == <<breakerVars, dlqVars, promptVars, sceneVars, parseVars>>

svcVars == <<baseSvcVars, extraVars>>

vars == <<pipelineVars, idemVars, svcVars>>

N == Len(scenes_data)

SceneIdx == 0 .. (N - 1)

TASK_ID == "task-1"

(***************************************************************************)
(* Init: the state right after generate_tour_video_from_listing committed  *)
(* the RenderJob (status queued, progress 0) and enqueued the task.        *)
(***************************************************************************)
\* bounds of the submission model
MaxRequests == 2

MaxKeys == 1

MaxAdvances == 2

Requests == 1 .. MaxRequests

Keys == 1 .. MaxKeys

Orgs == {"org-a", "org-b"}

IDEMPOTENCY_TTL == 3600

\* GenerateTourVideoResponse(project_id, render_job_id, status, message)
GenerateTourVideoResponse(project_id, render_job_id, st, message) ==
    [http |-> 200, project_id |-> project_id, render_job_id |-> render_job_id,
     status |-> st, message |-> message]

HTTPException(code) ==
    [http |-> code, project_id |-> 0, render_job_id |-> 0, status |-> "error",
     message |-> "error"]

NoResponse == HTTPException(0)

LISTING_ORG == "org-a"

\* an absent key: redis.get returns a falsy value
NoEntry == [text |-> << >>, expires_at |-> 0]

\* no submission has arrived, the cache is empty at time 0
InitIdem ==
    /\ req_pc = [r \in Requests |-> "new"]
    /\ req_key = [r \in Requests |-> 0]
    /\ req_org = [r \in Requests |-> None]
    /\ req_at = [r \in Requests |-> 0]
    /\ req_fault = [r \in Requests |-> FALSE]
    /\ req_response = [r \in Requests |-> NoResponse]
    /\ redis_client = FALSE
    /\ redis_up \in BOOLEAN
    /\ cache = [k \in Keys |-> NoEntry]
    /\ now = 0
    /\ advances = 0
    /\ created = << >>
    /\ enqueued = {}

\* one queued job and its task, whatever the dead-letter store holds
InitRun(maxPhotos) ==
    /\ \E d \in Durations, n_photos \in 1 .. maxPhotos :
          scenes_data = [i \in 1 .. SceneCount(d, n_photos) |-> i - 1]
    /\ status = "queued"
    /\ progress_percent = 0
    /\ output_url = None
    /\ error_message = None
    /\ step_progress = << >>
    /\ project_status = "script_pending"
    /\ pc = "idle"
    /\ exc = None
    /\ voiceover_future = "none"
    /\ video_futures = << >>
    /\ clip_results = << >>
    /\ fi = 0
    /\ voiceover_result = None
    /\ video_clips = << >>
    /\ completed_count = 0
    /\ composed = << >>
    /\ out_of_order = FALSE
    /\ voiceover_requests = 0
    /\ clip_requests = 0
    /\ compose_calls = 0
    /\ upload_calls = 0
    /\ failed_writes = 0
    /\ queue_msg = TRUE
    /\ task_state = "PENDING"
    /\ retries = 0
    /\ attempts_raised = 0
    /\ worker_lost = 0
    /\ cancels = 0
    /\ cancelled_in = None
    /\ polled_progress = -1

InitPipeline(maxPhotos) ==
    /\ InitRun(maxPhotos)
    /\ dlq_failures = << >>
    /\ dlq_by_id = << >>

(***************************************************************************)
(* CircuitBreaker (services/circuit_breaker.py)                            *)
(***************************************************************************)
failure_threshold == 5

recovery_timeout == 60

success_threshold == 2

\* bounds of the breaker model
MaxCallers == 2

MaxCalls == 8

MaxTicks == 4

Callers == 1 .. MaxCallers

CircuitState == {"closed", "open", "half_open"}

Max(a, b) == IF a >= b THEN a ELSE b

\* the clock advances in steps of half a recovery_timeout
TimeStep == recovery_timeout \div 2

\* time.time() when the breaker is constructed
StartTime == 10 * recovery_timeout

\* the dataclass defaults: state CLOSED, counters 0, last_failure_time 0.0
NewBreaker ==
    [state |-> "closed", failure_count |-> 0, success_count |-> 0,
     last_failure_time |-> 0]

is_open(b) == b.state = "open"

is_half_open(b) == b.state = "half_open"

time_since_last_failure(b, t) == t - b.last_failure_time

\* seconds until the circuit will go half-open
retry_after(b, t) ==
    IF ~is_open(b) THEN 0
    ELSE Max(0, recovery_timeout - time_since_last_failure(b, t))

\* _transition_to: HALF_OPEN resets success_count, CLOSED resets both counters
_transition_to(b, new_state) ==
    [b EXCEPT !.state = new_state,
              !.success_count = IF new_state \in {"half_open", "closed"} THEN 0 ELSE @,
              !.failure_count = IF new_state = "closed" THEN 0 ELSE @]

\* variant: one success more than success_threshold is needed
_record_success_late(b) ==
    IF is_half_open(b)
    THEN LET b1 == [b EXCEPT !.success_count = @ + 1]
         IN IF b1.success_count > success_threshold
            THEN _transition_to(b1, "closed")
            ELSE b1
    ELSE b

\* _record_success: counts only in half-open
_record_success(b) ==
    IF is_half_open(b)
    THEN LET b1 == [b EXCEPT !.success_count = @ + 1]
         IN IF b1.success_count >= success_threshold
            THEN _transition_to(b1, "closed")
            ELSE b1
    ELSE b

\* _record_failure
_record_failure(b, t) ==
    LET b1 == [b EXCEPT !.failure_count = @ + 1, !.last_failure_time = t]
    IN IF is_half_open(b1) THEN _transition_to(b1, "open")
       ELSE IF b1.failure_count >= failure_threshold THEN _transition_to(b1, "open")
       ELSE b1

\* variant: an open breaker goes half-open whatever time has passed
_check_state_eager(b, t) ==
    IF is_open(b) THEN _transition_to(b, "half_open") ELSE b

\* _check_state: open and recovery_timeout elapsed -> half-open
_check_state(b, t) ==
    IF is_open(b) /\ time_since_last_failure(b, t) >= recovery_timeout
    THEN _transition_to(b, "half_open")
    ELSE b

InitBreaker ==
    /\ breaker = NewBreaker
    /\ time_now = StartTime
    /\ call_pc = [c \in Callers |-> "idle"]
    /\ call_admitted = [c \in Callers |-> None]
    /\ call_outcome = [c \in Callers |-> None]
    /\ call_retry_after = [c \in Callers |-> 0]
    /\ calls_made = 0
    /\ invoked = 0
    /\ streak = 0
    /\ last_caller = 0
    /\ ho_successes = 0

\* nothing was sent, no failure was found, no replay was asked for
NoSend == [task_name |-> None]

NoFailure == [task_id |-> 0]

NoReplay == [task_id |-> 0, found |-> FALSE, result |-> FALSE, sent |-> NoSend]

InitDlq ==
    /\ failed_total = 0
    /\ replayed = NoReplay

(***************************************************************************)
(* Prompt text.  A text is a sequence of tokens: words, and the separators  *)
(* between them (space, newline, a control character, an HTML special).     *)
(***************************************************************************)
SP == " "

NL == "\n"

NUL == "\\x00"

LT == "<"

Whitespace == {SP, NL}

Tok(text, i) == IF i \in 1 .. Len(text) THEN text[i] ELSE ""

\* DANGEROUS_PATTERNS[0]: ignore (all )?(previous|prior|above) (instructions?|prompts?)
\* number of tokens matched at position i, 0 when there is no match
MatchLen(text, i) ==
    IF Tok(text, i) = "ignore" /\ Tok(text, i + 1) = SP
    THEN LET j == IF Tok(text, i + 2) = "all" /\ Tok(text, i + 3) = SP
                  THEN i + 4 ELSE i + 2
         IN IF /\ Tok(text, j) \in {"previous", "prior", "above"}
               /\ Tok(text, j + 1) = SP
               /\ Tok(text, j + 2) \in {"instructions", "instruction", "prompts", "prompt"}
            THEN j + 3 - i
            ELSE 0
    ELSE 0

\* re.search(pattern, text) finds a match
ContainsOverride(text) == \E i \in 1 .. Len(text) : MatchLen(text, i) > 0

\* the first features[:3], joined with ", "
RECURSIVE JoinFeatures(_)
JoinFeatures(features) ==
    IF features = << >> THEN << >>
    ELSE IF Len(features) = 1 THEN features[1]
    ELSE features[1] \o <<",", SP>> \o JoinFeatures(Tail(features))

\* generate_script_sync's user_prompt: the listing fields are put into the
\* f-string as they are
user_prompt(listing) ==
    <<"Listing:", NL>> \o listing.address \o <<NL>>
       \o listing.neighborhood \o <<NL>>
       \o (IF listing.features = << >> THEN <<"great", SP, "layout">>
           ELSE JoinFeatures(SubSeq(listing.features, 1, Min(3, Len(listing.features)))))
       \o <<NL, "Write", SP, "scenes", NL, "hook:", SP>> \o listing.neighborhood

(***************************************************************************)
(* services/sanitization.py                                                *)
(***************************************************************************)
MAX_LENGTHS ==
    [address |-> 500, description |-> 5000, feature |-> 200, city |-> 100,
     neighborhood |-> 100, headline |-> 300, default |-> 1000]

\* characters of a token
TokChars(tok) == IF tok = NUL THEN 1 ELSE Len(tok)

RECURSIVE TextChars(_)
TextChars(text) ==
    IF text = << >> THEN 0 ELSE TokChars(Head(text)) + TextChars(Tail(text))

\* str.strip(): leading and trailing whitespace goes
RECURSIVE lstrip(_)
lstrip(text) ==
    IF text # << >> /\ Head(text) \in Whitespace THEN lstrip(Tail(text)) ELSE text

RECURSIVE rstrip(_)
rstrip(text) ==
    IF text # << >> /\ text[Len(text)] \in Whitespace
    THEN rstrip(SubSeq(text, 1, Len(text) - 1))
    ELSE text

strip(text) == rstrip(lstrip(text))

\* html.escape(text, quote=True)
html_escape(text) == [i \in 1 .. Len(text) |-> IF text[i] = LT THEN "&lt;" ELSE text[i]]

\* re.sub(pattern, "[FILTERED]", text): leftmost non-overlapping matches
RECURSIVE re_sub(_, _)
re_sub(text, i) ==
    IF i > Len(text) THEN << >>
    ELSE IF MatchLen(text, i) > 0
    THEN <<"[FILTERED]">> \o re_sub(text, i + MatchLen(text, i))
    ELSE <<text[i]>> \o re_sub(text, i + 1)

IsControl(tok) == tok = NUL

\* re.sub(r"[\x00-\x08\x0b\x0c\x0e-\x1f\x7f-\x9f]", "", text)
remove_control(text) == SelectSeq(text, LAMBDA tok : ~IsControl(tok))

\* re.sub(r"[\x00-\x1f\x7f-\x9f]", " ", text)
blank_control(text) ==
    [i \in 1 .. Len(text) |-> IF IsControl(text[i]) \/ text[i] = NL THEN SP ELSE text[i]]

\* re.sub(r"\s+", " ", text)
RECURSIVE collapse_whitespace(_)
collapse_whitespace(text) ==
    IF text = << >> THEN << >>
    ELSE IF Head(text) \in Whitespace
    THEN <<SP>> \o collapse_whitespace(lstrip(text))
    ELSE <<Head(text)>> \o collapse_whitespace(Tail(text))

\* text[:length_limit]; a token the limit falls inside is dropped whole
RECURSIVE take_chars(_, _)
take_chars(text, limit) ==
    IF text = << >> \/ TokChars(Head(text)) > limit THEN << >>
    ELSE <<Head(text)>> \o take_chars(Tail(text), limit - TokChars(Head(text)))

sanitize_text(text, field_type, allow_newlines) ==
    LET stripped == strip(text)
        filtered == re_sub(html_escape(stripped), 1)
        cleaned == IF allow_newlines THEN remove_control(filtered)
                   ELSE collapse_whitespace(blank_control(filtered))
        length_limit == MAX_LENGTHS[field_type]
    IN IF stripped = << >> THEN << >>
       ELSE IF TextChars(cleaned) > length_limit
       THEN take_chars(cleaned, length_limit) \o <<"...">>
       ELSE cleaned

\* sanitize_listing_data: the string fields, and the first 20 features,
\* empty ones left out
sanitize_listing_data(listing) ==
    [address |-> sanitize_text(listing.address, "address", TRUE),
     neighborhood |-> sanitize_text(listing.neighborhood, "neighborhood", TRUE),
     features |->
        LET items == SelectSeq(SubSeq(listing.features, 1, Min(20, Len(listing.features))),
                               LAMBDA item : item # << >>)
        IN [i \in 1 .. Len(items) |-> sanitize_text(items[i], "feature", TRUE)]]

BenignText == <<"12", SP, "oak", SP, "st">>

\* listing fields a user can have typed
OverrideText == <<"ignore", SP, "previous", SP, "instructions">>

OverrideAllText == <<"oak", SP, "ignore", SP, "all", SP, "previous", SP, "instructions">>

FieldTexts == {BenignText, OverrideText, OverrideAllText}

Listings ==
    [address : FieldTexts, neighborhood : FieldTexts,
     features : {<<>>} \cup {<<t>> : t \in FieldTexts}]

BenignListing ==
    [address |-> BenignText, neighborhood |-> <<"riverside">>, features |-> << >>]

InitPrompt ==
    /\ listing_data = BenignListing
    /\ llm_prompt = << >>

\* no submission is building scenes
InitScenes ==
    /\ duration_seconds = 30
    /\ photos = << >>
    /\ scenes = << >>
    /\ scene_count_setting = 0
    /\ scenes_pc = "done"

\* no response is being read
NoResult == [kind |-> "none", value |-> << >>]

InitParse ==
    /\ response_text = << >>
    /\ script_result = NoResult
    /\ parse_pc = "idle"

\* sanitize_text is not being called
InitSan ==
    /\ san_input = << >>
    /\ san_allow_newlines = TRUE
    /\ san_output = << >>
    /\ san_pc = "idle"

\* no client is connected to the stream
InitStream ==
    /\ stream_pc = "idle"
    /\ last_progress = -1
    /\ emitted = {}

\* no request has reached the middleware
InitRate ==
    /\ zset = << >>
    /\ timestamps = << >>
    /\ rl_now = 0
    /\ forwarded = << >>
    /\ rl_status = 0
    /\ rl_requests = 0

\* no render was asked for through the generic endpoint
InitRender ==
    /\ render_status = "none"
    /\ render_task_state = "none"
    /\ render_pc = "none"
    /\ generated_clips = 0

InitExtra ==
    /\ InitSan
    /\ InitStream
    /\ InitRate
    /\ InitRender

InitBaseSvc ==
    /\ InitBreaker
    /\ InitDlq
    /\ InitPrompt
    /\ InitScenes
    /\ InitParse

InitSvc ==
    /\ InitBaseSvc
    /\ InitExtra

(***************************************************************************)
(* Progress store writes                                                   *)
(***************************************************************************)

\* update_step_progress: step_progress[step] = {"status": status, **details}
update_step_progress(step, st) ==
    step_progress' = (step :> [status |-> st]) @@ step_progress

\* progress = 20 + int(completed_count / len(scenes_data) * 55)
ClipProgress(count) == 20 + ((count * 55) \div N)


(***************************************************************************)
(* generate_tour_video_task, one action per commit or external call        *)
(***************************************************************************)

\* The broker hands the message to a worker, which starts the task body.
Deliver ==
    /\ queue_msg
    /\ pc = "idle"
    /\ queue_msg' = FALSE
    /\ task_state' = "STARTED"
    /\ pc' = "mark_processing"
    /\ exc' = None
    /\ voiceover_future' = "none"
    /\ video_futures' = << >>
    /\ clip_results' = << >>
    /\ fi' = 0
    /\ voiceover_result' = None
    /\ video_clips' = << >>
    /\ completed_count' = 0
    /\ composed' = << >>
    /\ out_of_order' = FALSE
    /\ voiceover_requests' = 0
    /\ clip_requests' = 0
    /\ compose_calls' = 0
    /\ upload_calls' = 0
    /\ failed_writes' = 0
    /\ UNCHANGED <<scenes_data, jobVars, retries, attempts_raised, worker_lost,
                   dlq_failures, dlq_by_id, clientVars, idemVars, svcVars>>

\* update_render_job(status="processing", progress_percent=5, ...)
MarkProcessing ==
    /\ pc = "mark_processing"
    /\ status' = "processing"
    /\ progress_percent' = 5
    /\ pc' = "script_begin"
    /\ UNCHANGED <<scenes_data, output_url, error_message, step_progress,
                   project_status, exc, voiceover_future, video_futures,
                   clip_results, fi, voiceover_result, video_clips,
                   completed_count, composed, out_of_order,
                   countVars, queueVars, clientVars,
                   idemVars, svcVars>>

\* frame of a step that writes only the sub-step map
StepFrame ==
    UNCHANGED <<scenes_data, status, progress_percent, output_url, error_message,
                project_status, exc, voiceover_future, video_futures,
                clip_results, fi, voiceover_result, video_clips, completed_count,
                composed, out_of_order, countVars, queueVars, clientVars, idemVars, svcVars>>

\* frame of a step that writes only progress_percent
ProgressFrame ==
    UNCHANGED <<scenes_data, status, output_url, error_message, step_progress,
                project_status, exc, voiceover_future, video_futures,
                clip_results, fi, voiceover_result, video_clips, completed_count,
                composed, out_of_order, countVars, queueVars, clientVars, idemVars, svcVars>>

\* frame of an external call that only moves the orchestrator
CallFrame ==
    UNCHANGED <<scenes_data, jobVars, voiceover_future, video_futures,
                clip_results, fi, voiceover_result, video_clips, completed_count,
                out_of_order, queueVars, clientVars, idemVars, breakerVars,
                dlqVars, listing_data, sceneVars, parseVars, extraVars>>

ScriptBegin ==
    /\ pc = "script_begin"
    /\ update_step_progress("script", "in_progress")
    /\ pc' = "script_call"
    /\ StepFrame

\* generate_script_sync returns a script or raises
ScriptCall ==
    /\ pc = "script_call"
    /\ \E ok \in BOOLEAN :
          IF ok THEN pc' = "script_completed" /\ exc' = exc
                ELSE pc' = "except" /\ exc' = "script generation failed"
    /\ llm_prompt' = user_prompt(listing_data)
    /\ UNCHANGED <<composed, countVars>>
    /\ CallFrame

ScriptCompleted ==
    /\ pc = "script_completed"
    /\ update_step_progress("script", "completed")
    /\ pc' = "progress_15"
    /\ StepFrame

\* update_render_job(progress_percent=15); update_scenes_with_script(...)
Progress15 ==
    /\ pc = "progress_15"
    /\ progress_percent' = 15
    /\ pc' = "voiceover_begin"
    /\ ProgressFrame

VoiceoverBegin ==
    /\ pc = "voiceover_begin"
    /\ update_step_progress("voiceover", "in_progress")
    /\ pc' = "videos_begin"
    /\ StepFrame

VideosBegin ==
    /\ pc = "videos_begin"
    /\ update_step_progress("videos", "in_progress")
    /\ pc' = "progress_20"
    /\ StepFrame

Progress20 ==
    /\ pc = "progress_20"
    /\ progress_percent' = 20
    /\ pc' = "submit"
    /\ ProgressFrame

(***************************************************************************)
(* Fan-out: ThreadPoolExecutor(max_workers=MAX_PARALLEL_VIDEO_GENERATIONS+1)*)
(***************************************************************************)

max_workers == MAX_PARALLEL_VIDEO_GENERATIONS + 1

\* for i, scene in enumerate(scenes_data): executor.submit(generate_clip_wrapper, ..)
SubmittedClips == SceneIdx

\* variant: the wrapper closes over the loop variable and renders the last scene
generate_clip_wrapper_late_binding(idx) == <<idx, [scene |-> scenes_data[N]]>>

\* generate_clip_wrapper(idx, scene, scene_script): (idx, clip rendered from scene)
generate_clip_wrapper(idx) == <<idx, [scene |-> scenes_data[idx + 1]]>>

Done(f) == f \in {"ok", "raised"}

ClipsInFlight == Cardinality({i \in DOMAIN video_futures : video_futures[i] = "running"})

Running == ClipsInFlight + (IF voiceover_future = "running" THEN 1 ELSE 0)

AllFuturesDone ==
    /\ Done(voiceover_future)
    /\ \A i \in DOMAIN video_futures : Done(video_futures[i])

\* the with-block submits the voiceover, then every clip, to the pool's queue
Submit ==
    /\ pc = "submit"
    /\ voiceover_future' = "pending"
    /\ video_futures' = [i \in SubmittedClips |-> "pending"]
    /\ clip_results' = [i \in SubmittedClips |-> NoClipResult]
    /\ video_clips' = [i \in 1 .. N |-> NoClip]
    /\ completed_count' = 0
    /\ voiceover_result' = None
    /\ fi' = 0
    /\ pc' = "collect"
    /\ UNCHANGED <<scenes_data, jobVars, exc, composed, out_of_order,
                   countVars, queueVars,
                   clientVars, idemVars, svcVars>>

PoolFrame ==
    UNCHANGED <<scenes_data, jobVars, pc, exc, fi, voiceover_result, video_clips,
                completed_count, composed, compose_calls, upload_calls,
                failed_writes, queueVars, clientVars, idemVars, svcVars>>

\* a pool thread takes the voiceover work item (first in the queue)
StartVoiceover ==
    /\ pc # "idle"
    /\ voiceover_future = "pending"
    /\ Running < max_workers
    /\ voiceover_future' = "running"
    /\ voiceover_requests' = voiceover_requests + 1
    /\ UNCHANGED <<video_futures, clip_results, clip_requests, out_of_order>>
    /\ PoolFrame

\* a pool thread takes the next clip work item, in submission order
StartClip ==
    /\ pc # "idle"
    /\ voiceover_future # "pending"
    /\ Running < max_workers
    /\ \E i \in DOMAIN video_futures :
          /\ video_futures[i] = "pending"
          /\ \A j \in DOMAIN video_futures : j < i => video_futures[j] # "pending"
          /\ video_futures' = [video_futures EXCEPT ![i] = "running"]
    /\ clip_requests' = clip_requests + 1
    /\ UNCHANGED <<voiceover_future, clip_results, voiceover_requests, out_of_order>>
    /\ PoolFrame

\* generate_voiceover_sync returns or raises
FinishVoiceover ==
    /\ pc # "idle"
    /\ voiceover_future = "running"
    /\ \E ok \in BOOLEAN : voiceover_future' = IF ok THEN "ok" ELSE "raised"
    /\ UNCHANGED <<video_futures, clip_results, voiceover_requests, clip_requests,
                   out_of_order>>
    /\ PoolFrame

\* generate_scene_clip_sync returns or raises, in any order across the clips
FinishClip ==
    /\ pc # "idle"
    /\ \E i \in DOMAIN video_futures :
          /\ video_futures[i] = "running"
          /\ \E ok \in BOOLEAN :
                IF ok
                THEN /\ video_futures' = [video_futures EXCEPT ![i] = "ok"]
                     /\ clip_results' = [clip_results EXCEPT ![i] = generate_clip_wrapper(i)]
                     /\ out_of_order' = (out_of_order \/ \E j \in DOMAIN video_futures :
                                              j < i /\ ~Done(video_futures[j]))
                ELSE /\ video_futures' = [video_futures EXCEPT ![i] = "raised"]
                     /\ UNCHANGED <<clip_results, out_of_order>>
    /\ UNCHANGED <<voiceover_future, voiceover_requests, clip_requests>>
    /\ PoolFrame

\* variant: the failure of a branch is logged and the loop goes on
ParallelFailureSkipped ==
    /\ exc' = exc
    /\ pc' = "clip_progress"

\* except Exception as e: raise Exception(f"Failed during parallel generation: ..")
ParallelFailure ==
    /\ exc' = "Failed during parallel generation"
    /\ pc' = "pool_shutdown"

\* result loop, futures[0]: voiceover_future.result()
CollectVoiceover ==
    /\ pc = "collect"
    /\ fi = 0
    /\ Done(voiceover_future)
    /\ IF voiceover_future = "ok"
       THEN /\ voiceover_result' = "audio"
            /\ update_step_progress("voiceover", "completed")
            /\ fi' = 1
            /\ UNCHANGED <<pc, exc>>
       ELSE /\ ParallelFailure
            /\ UNCHANGED <<voiceover_result, step_progress, fi>>
    /\ UNCHANGED <<scenes_data, status, progress_percent, output_url, error_message,
                   project_status, voiceover_future, video_futures, clip_results,
                   video_clips, completed_count, composed, out_of_order,
                   countVars, queueVars,
                   clientVars, idemVars, svcVars>>

\* result loop, futures[fi]: idx, clip_result = future.result()
CollectClip ==
    /\ pc = "collect"
    /\ fi >= 1
    /\ (fi - 1) \in DOMAIN video_futures
    /\ Done(video_futures[fi - 1])
    /\ IF video_futures[fi - 1] = "ok"
       THEN /\ LET r == clip_results[fi - 1]
               IN video_clips' = [video_clips EXCEPT ![r[1] + 1] = r[2]]
            /\ completed_count' = completed_count + 1
            /\ update_step_progress("videos", "in_progress")
            /\ pc' = "clip_progress"
            /\ exc' = exc
       ELSE /\ ParallelFailure
            /\ UNCHANGED <<video_clips, completed_count, step_progress>>
    /\ UNCHANGED <<scenes_data, status, progress_percent, output_url, error_message,
                   project_status, voiceover_future, video_futures, clip_results,
                   fi, voiceover_result, composed, out_of_order,
                   countVars, queueVars,
                   clientVars, idemVars, svcVars>>

\* update_render_job(progress_percent=progress), then the loop's next future
ClipProgressWrite ==
    /\ pc = "clip_progress"
    /\ progress_percent' = ClipProgress(completed_count)
    /\ fi' = fi + 1
    /\ pc' = IF fi \in DOMAIN video_futures THEN "collect" ELSE "pool_exit"
    /\ UNCHANGED <<scenes_data, status, output_url, error_message, step_progress,
                   project_status, exc, voiceover_future, video_futures,
                   clip_results, voiceover_result, video_clips, completed_count,
                   composed, out_of_order, countVars, queueVars, clientVars, idemVars, svcVars>>

\* leaving the with-block: executor.shutdown(wait=True)
PoolExit ==
    /\ pc \in {"pool_exit", "pool_shutdown"}
    /\ AllFuturesDone
    /\ pc' = IF pc = "pool_exit" THEN "videos_completed" ELSE "except"
    /\ UNCHANGED <<scenes_data, jobVars, exc, voiceover_future, video_futures,
                   clip_results, fi, voiceover_result, video_clips,
                   completed_count, composed, out_of_order,
                   countVars, queueVars, clientVars,
                   idemVars, svcVars>>

(***************************************************************************)
(* Composition, upload, completion                                         *)
(***************************************************************************)

VideosCompleted ==
    /\ pc = "videos_completed"
    /\ update_step_progress("videos", "completed")
    /\ pc' = "composition_begin"
    /\ StepFrame

CompositionBegin ==
    /\ pc = "composition_begin"
    /\ update_step_progress("composition", "in_progress")
    /\ pc' = "composite_call"
    /\ StepFrame

\* composite_video_sync: clip_paths[idx] per clip of video_clips, concat file
\* written "for path in clip_paths"
ConcatOrder(clips) == [i \in 1 .. Len(clips) |-> clips[i].scene]

\* composite_video_sync(video_clips=video_clips, ...) returns a path or raises
Composite ==
    /\ pc = "composite_call"
    /\ compose_calls' = compose_calls + 1
    /\ \E ok \in BOOLEAN :
          IF ok /\ (\A i \in 1 .. Len(video_clips) : video_clips[i] # NoClip)
          THEN /\ composed' = ConcatOrder(video_clips)
               /\ pc' = "composition_completed"
               /\ exc' = exc
          ELSE /\ composed' = composed
               /\ pc' = "except"
               /\ exc' = "composition failed"
    /\ UNCHANGED <<voiceover_requests, clip_requests, upload_calls, failed_writes>>
    /\ UNCHANGED llm_prompt
    /\ CallFrame

CompositionCompleted ==
    /\ pc = "composition_completed"
    /\ update_step_progress("composition", "completed")
    /\ pc' = "progress_90"
    /\ StepFrame

Progress90 ==
    /\ pc = "progress_90"
    /\ progress_percent' = 90
    /\ pc' = "upload_begin"
    /\ ProgressFrame

UploadBegin ==
    /\ pc = "upload_begin"
    /\ update_step_progress("upload", "in_progress")
    /\ pc' = "upload_call"
    /\ StepFrame

\* upload_to_storage(final_video_path, project_id) returns (url, size) or raises
Upload ==
    /\ pc = "upload_call"
    /\ upload_calls' = upload_calls + 1
    /\ \E ok \in BOOLEAN :
          IF ok THEN pc' = "upload_completed" /\ exc' = exc
                ELSE pc' = "except" /\ exc' = "upload failed"
    /\ UNCHANGED <<composed, voiceover_requests, clip_requests, compose_calls,
                   failed_writes>>
    /\ UNCHANGED llm_prompt
    /\ CallFrame

UploadCompleted ==
    /\ pc = "upload_completed"
    /\ update_step_progress("upload", "completed")
    /\ pc' = "project_content"
    /\ StepFrame

\* update_project_content: generated fields, project.status = "completed"
UpdateProjectContent ==
    /\ pc = "project_content"
    /\ project_status' = "completed"
    /\ pc' = "mark_completed"
    /\ UNCHANGED <<scenes_data, status, progress_percent, output_url, error_message,
                   step_progress, exc, voiceover_future, video_futures,
                   clip_results, fi, voiceover_result, video_clips,
                   completed_count, composed, out_of_order,
                   countVars, queueVars, clientVars,
                   idemVars, svcVars>>

\* update_render_job(status="completed", progress_percent=100, output_url=..)
MarkCompleted ==
    /\ pc = "mark_completed"
    /\ status' = "completed"
    /\ progress_percent' = 100
    /\ output_url' = "output_url"
    /\ pc' = "return"
    /\ UNCHANGED <<scenes_data, error_message, step_progress, project_status, exc,
                   voiceover_future, video_futures, clip_results, fi,
                   voiceover_result, video_clips, completed_count, composed,
                   out_of_order,
                   countVars, queueVars, clientVars, idemVars, svcVars>>

\* variant: the handler re-raises without recording the failure
HandleExceptionNoWrite ==
    /\ pc = "except"
    /\ pc' = "reraise"
    /\ UNCHANGED <<scenes_data, jobVars, exc, voiceover_future, video_futures,
                   clip_results, fi, voiceover_result, video_clips,
                   completed_count, composed, out_of_order, countVars, queueVars,
                   clientVars, idemVars, svcVars>>

\* except Exception as e: update_render_job(status="failed", error_message=str(e)); raise
HandleException ==
    /\ pc = "except"
    /\ status' = "failed"
    /\ error_message' = exc
    /\ failed_writes' = failed_writes + 1
    /\ pc' = "reraise"
    /\ UNCHANGED <<scenes_data, progress_percent, output_url, step_progress,
                   project_status, exc, voiceover_future, video_futures,
                   clip_results, fi, voiceover_result, video_clips,
                   completed_count, composed, out_of_order,
                   voiceover_requests, clip_requests,
                   compose_calls, upload_calls, queueVars, clientVars, idemVars, svcVars>>

(***************************************************************************)
(* Task queue: autoretry_for=(Exception,), max_retries=3, task_acks_late,   *)
(* task_reject_on_worker_lost, and the task_failure signal handler          *)
(***************************************************************************)

\* variant: one retry too many
ShouldRetryOffByOne(r) == r <= max_retries

\* Task.retry re-submits while request.retries < max_retries
ShouldRetry(r) == r < max_retries

\* _safe_serialize's default max_length
max_length == 500

\* a JSON value among a task's arguments: its content, and the length of the
\* text json.dumps gives for it
JsonValue(content, size) == [content |-> content, size |-> size]

\* _safe_serialize: json.dumps, cut to max_length characters plus "..."
_safe_serialize(obj) ==
    IF obj.size > max_length
    THEN [content |-> obj.content, len |-> max_length + 3, cut |-> TRUE]
    ELSE [content |-> obj.content, len |-> obj.size, cut |-> FALSE]

\* json.loads of a serialized argument: a text cut short and ended with "..."
\* is not JSON and raises
Deserializable(text) == ~text.cut

ArgsLoads(text) == JsonValue(text.content, text.len)

\* the arguments generate_tour_video_task.delay was called with
TaskArgs == JsonValue("[]", 2)

TaskKwargs == JsonValue("render_job_id, project_id, listing_data, scenes_data", 2400)

FailureRecord(task_id, e, args, kwargs) ==
    [task_id |-> task_id, task_name |-> "generate_tour_video",
     exception_message |-> e,
     args |-> _safe_serialize(args), kwargs |-> _safe_serialize(kwargs)]

\* r.zadd(key, {record: timestamp}); r.zremrangebyrank(key, 0, -1001)
ZAddTrim(z, rec) ==
    LET a == Append(z, rec)
    IN IF Len(a) > DLQ_KEEP THEN SubSeq(a, Len(a) - DLQ_KEEP + 1, Len(a)) ELSE a

\* handle_task_failure: the record goes to the sorted set and to the hash
handle_task_failure(task_id, e, args, kwargs) ==
    /\ dlq_failures' = ZAddTrim(dlq_failures, FailureRecord(task_id, e, args, kwargs))
    /\ dlq_by_id' = (task_id :> FailureRecord(task_id, e, args, kwargs)) @@ dlq_by_id

\* the task body returned: state SUCCESS, message acknowledged
CeleryOnReturn ==
    /\ pc = "return"
    /\ pc' = "idle"
    /\ task_state' = "SUCCESS"
    /\ UNCHANGED <<scenes_data, jobVars, exc, voiceover_future, video_futures,
                   clip_results, fi, voiceover_result, video_clips,
                   completed_count, composed, out_of_order,
                   countVars, queue_msg, retries,
                   attempts_raised, worker_lost, dlq_failures, dlq_by_id,
                   clientVars, idemVars, svcVars>>

\* the task body raised: retry with backoff, or FAILURE and task_failure signal
CeleryOnRaise ==
    /\ pc = "reraise"
    /\ pc' = "idle"
    /\ attempts_raised' = attempts_raised + 1
    /\ IF ShouldRetry(retries)
       THEN /\ retries' = retries + 1
            /\ task_state' = "RETRY"
            /\ queue_msg' = TRUE
            /\ UNCHANGED <<dlq_failures, dlq_by_id>>
       ELSE /\ task_state' = "FAILURE"
            /\ handle_task_failure(TASK_ID, exc, TaskArgs, TaskKwargs)
            /\ UNCHANGED <<retries, queue_msg>>
    /\ UNCHANGED <<scenes_data, jobVars, exc, voiceover_future, video_futures,
                   clip_results, fi, voiceover_result, video_clips,
                   completed_count, composed, out_of_order, countVars, worker_lost,
                   clientVars, idemVars, svcVars>>

\* the worker process dies mid-task: the unacknowledged message is requeued
WorkerLost ==
    /\ pc # "idle"
    /\ worker_lost < MaxWorkerLost
    /\ worker_lost' = worker_lost + 1
    /\ pc' = "idle"
    /\ queue_msg' = TRUE
    /\ voiceover_future' = "none"
    /\ video_futures' = << >>
    /\ clip_results' = << >>
    /\ UNCHANGED <<scenes_data, jobVars, exc, fi, voiceover_result, video_clips,
                   completed_count, composed, out_of_order,
                   countVars, task_state, retries,
                   attempts_raised, dlq_failures, dlq_by_id, clientVars, idemVars, svcVars>>

(***************************************************************************)
(* Clients of the render job                                               *)
(***************************************************************************)

\* cancel_tour_video: queued / processing jobs become cancelled, project failed
cancel_tour_video ==
    /\ cancels < MaxCancels
    /\ cancels' = cancels + 1
    /\ IF status \in {"queued", "processing"}
       THEN /\ status' = "cancelled"
            /\ error_message' = "Cancelled by user"
            /\ cancelled_in' = status
       ELSE UNCHANGED <<status, error_message, cancelled_in>>
    /\ project_status' = "failed"
    /\ UNCHANGED <<scenes_data, progress_percent, output_url, step_progress,
                   runVars, countVars, queueVars, polled_progress, idemVars, svcVars>>

\* a Python str, as a value that can be compared with a dict
Str(text) == [str |-> text]

PyNone == [none |-> TRUE]

\* step_details.get(step)
dict_get(step_details, step) ==
    IF step \in DOMAIN step_details THEN step_details[step] ELSE PyNone

\* get_tour_video_progress: current_step from the job's status and the
\* sub-step map
current_step(job_status, step_details) ==
    IF job_status = "processing"
    THEN IF dict_get(step_details, "script") = Str("completed")
         THEN IF dict_get(step_details, "voiceover") = Str("completed")
              THEN IF dict_get(step_details, "videos") = Str("completed")
                   THEN "compositing"
                   ELSE "generating_videos"
              ELSE "generating_voiceover"
         ELSE "generating_script"
    ELSE IF job_status = "completed" THEN "completed"
    ELSE IF job_status = "failed" THEN "failed"
    ELSE "queued"

\* get_tour_video_progress: a poll reads status and progress_percent
get_tour_video_progress ==
    /\ polled_progress' = IF status = "processing" THEN progress_percent
                                                   ELSE polled_progress
    /\ UNCHANGED <<scenes_data, jobVars, runVars, countVars, queueVars, cancels,
                   cancelled_in, idemVars, svcVars>>

(***************************************************************************)
(* Specifications of the pipeline                                          *)
(***************************************************************************)

OrchestratorStep ==
    \/ Deliver
    \/ MarkProcessing
    \/ ScriptBegin
    \/ ScriptCall
    \/ ScriptCompleted
    \/ Progress15
    \/ VoiceoverBegin
    \/ VideosBegin
    \/ Progress20
    \/ Submit
    \/ StartVoiceover
    \/ StartClip
    \/ FinishVoiceover
    \/ FinishClip
    \/ CollectVoiceover
    \/ CollectClip
    \/ ClipProgressWrite
    \/ PoolExit
    \/ VideosCompleted
    \/ CompositionBegin
    \/ Composite
    \/ CompositionCompleted
    \/ Progress90
    \/ UploadBegin
    \/ Upload
    \/ UploadCompleted
    \/ UpdateProjectContent
    \/ MarkCompleted
    \/ HandleException
    \/ CeleryOnReturn
    \/ CeleryOnRaise

\* one job under retries, redelivery, cancel requests and polls
InitJob == InitPipeline(MaxPhotosJob) /\ InitIdem /\ redis_up /\ InitSvc

NextJob ==
    \/ OrchestratorStep
    \/ WorkerLost
    \/ cancel_tour_video

SpecJob == InitJob /\ [][NextJob]_vars

\* the same job, with a client polling its progress
NextPoll ==
    \/ OrchestratorStep
    \/ WorkerLost
    \/ cancel_tour_video
    \/ get_tour_video_progress

SpecPoll == InitJob /\ [][NextPoll]_vars

\* the fan-out at full width, attempts run to the end
InitFan == InitPipeline(MaxPhotos) /\ InitIdem /\ redis_up /\ InitSvc

NextFan == OrchestratorStep

SpecFan == InitFan /\ [][NextFan]_vars

(***************************************************************************)
(* generate_tour_video_from_listing: idempotency guard around job creation *)
(***************************************************************************)

\* json.dumps(response_data): the four fields, ids as strings, in one text
json_dumps(resp) ==
    <<"{", resp.project_id, resp.render_job_id, resp.status, resp.message, "}">>

\* json.loads raises on a text that is no JSON document
Parseable(text) == Len(text) = 6 /\ text[1] = "{" /\ text[6] = "}"

\* GenerateTourVideoResponse(**json.loads(existing))
json_loads(text) == GenerateTourVideoResponse(text[2], text[3], text[4], text[5])

Garbage == <<"<", "html", ">">>

pipelineFrame == UNCHANGED <<pipelineVars, svcVars>>

\* redis.get(key): the entry while its TTL has not run out
RedisGet(k) == IF now < cache[k].expires_at THEN cache[k].text ELSE << >>

\* get_redis_for_idempotency: the cached global is returned without a ping;
\* otherwise the client is assigned, pinged, and None returned when ping raises
get_redis_for_idempotency == redis_client \/ redis_up

\* variant: the read is not wrapped in try/except, the exception escapes
CacheReadUnguarded(k) ==
    IF ~get_redis_for_idempotency THEN "failed"
    ELSE IF ~redis_up THEN "error"
    ELSE IF RedisGet(k) = << >> THEN "miss"
    ELSE IF ~Parseable(RedisGet(k)) THEN "error"
    ELSE "hit"

\* lines 150-160: "hit", "miss", or "failed" (an exception that was swallowed);
\* an "error" would be an exception leaving the handler, answered 500
CacheRead(k) ==
    IF ~get_redis_for_idempotency THEN "failed"
    ELSE IF ~redis_up THEN "failed"
    ELSE IF RedisGet(k) = << >> THEN "miss"
    ELSE IF ~Parseable(RedisGet(k)) THEN "failed"
    ELSE "hit"

\* lines 327-343: "stored", or "failed" (an exception that was swallowed)
CacheWrite(k) ==
    IF ~get_redis_for_idempotency THEN "failed"
    ELSE IF ~redis_up THEN "failed"
    ELSE "stored"

\* a request arrives and runs the idempotency check (lines 149-160)
CheckIdempotency ==
    \E r \in Requests, k \in Keys \cup {0}, org \in Orgs :
       /\ req_pc[r] = "new"
       /\ \A q \in Requests : q < r => req_pc[q] # "new"
       /\ req_key' = [req_key EXCEPT ![r] = k]
       /\ req_org' = [req_org EXCEPT ![r] = org]
       /\ req_at' = [req_at EXCEPT ![r] = now]
       /\ IF k = 0
          THEN /\ req_pc' = [req_pc EXCEPT ![r] = "create"]
               /\ UNCHANGED <<req_fault, req_response, redis_client>>
          ELSE /\ redis_client' = TRUE
               /\ LET got == CacheRead(k)
                  IN /\ req_fault' = [req_fault EXCEPT ![r] = (got \notin {"hit", "miss"})]
                     /\ IF got = "hit"
                        THEN /\ req_response' = [req_response EXCEPT
                                                   ![r] = json_loads(RedisGet(k))]
                             /\ req_pc' = [req_pc EXCEPT ![r] = "done"]
                        ELSE IF got \in {"miss", "failed"}
                        THEN /\ req_pc' = [req_pc EXCEPT ![r] = "create"]
                             /\ UNCHANGED req_response
                        ELSE /\ req_response' = [req_response EXCEPT
                                                   ![r] = HTTPException(500)]
                             /\ req_pc' = [req_pc EXCEPT ![r] = "done"]
       /\ UNCHANGED <<redis_up, cache, now, advances, created, enqueued>>
       /\ pipelineFrame

\* lines 162-324: listing lookup, Project / Scenes / RenderJob commit, .delay()
CreateJob ==
    \E r \in Requests :
       /\ req_pc[r] = "create"
       /\ IF req_org[r] # LISTING_ORG
          THEN /\ req_response' = [req_response EXCEPT ![r] = HTTPException(404)]
               /\ req_pc' = [req_pc EXCEPT ![r] = "done"]
               /\ UNCHANGED <<created, enqueued>>
          ELSE LET id == Len(created) + 1
               IN /\ created' = Append(created, [id |-> id, key |-> req_key[r],
                                                  org |-> req_org[r], by |-> r])
                  /\ enqueued' = enqueued \cup {id}
                  /\ req_response' = [req_response EXCEPT ![r] =
                        GenerateTourVideoResponse(id, id, "queued",
                                                  "Tour video generation started.")]
                  /\ req_pc' = [req_pc EXCEPT ![r] = "store"]
       /\ UNCHANGED <<req_key, req_org, req_at, req_fault, redis_client, redis_up,
                      cache, now, advances>>
       /\ pipelineFrame

\* lines 326-345: cache the response under the key for one hour, return it
StoreIdempotency ==
    \E r \in Requests :
       /\ req_pc[r] = "store"
       /\ IF req_key[r] = 0
          THEN UNCHANGED <<req_fault, req_response, redis_client, cache>>
          ELSE /\ redis_client' = TRUE
               /\ LET put == CacheWrite(req_key[r])
                  IN /\ req_fault' = [req_fault EXCEPT
                                        ![r] = req_fault[r] \/ put \notin {"stored"}]
                     /\ cache' = IF put = "stored"
                                 THEN [cache EXCEPT ![req_key[r]] =
                                         [text |-> json_dumps(req_response[r]),
                                          expires_at |-> now + IDEMPOTENCY_TTL]]
                                 ELSE cache
                     /\ req_response' = IF put \in {"stored", "failed"}
                                        THEN req_response
                                        ELSE [req_response EXCEPT ![r] = HTTPException(500)]
       /\ req_pc' = [req_pc EXCEPT ![r] = "done"]
       /\ UNCHANGED <<req_key, req_org, req_at, redis_up, now, advances, created,
                      enqueued>>
       /\ pipelineFrame

\* environment: the Redis server goes away or comes back
RedisToggle ==
    /\ redis_up' = ~redis_up
    /\ UNCHANGED <<req_pc, req_key, req_org, req_at, req_fault, req_response,
                   redis_client, cache, now, advances, created, enqueued>>
    /\ pipelineFrame

\* environment: a key holds a value that is no JSON document
CorruptEntry ==
    \E k \in Keys :
       /\ redis_up
       /\ cache[k].text # Garbage
       /\ cache' = [cache EXCEPT ![k] = [text |-> Garbage,
                                          expires_at |-> now + IDEMPOTENCY_TTL]]
       /\ UNCHANGED <<req_pc, req_key, req_org, req_at, req_fault, req_response,
                      redis_client, redis_up, now, advances, created, enqueued>>
       /\ pipelineFrame

\* environment: time passes
Tick ==
    \E d \in {1, IDEMPOTENCY_TTL - 1} :
       /\ advances < MaxAdvances
       /\ advances' = advances + 1
       /\ now' = now + d
       /\ UNCHANGED <<req_pc, req_key, req_org, req_at, req_fault, req_response,
                      redis_client, redis_up, cache, created, enqueued>>
       /\ pipelineFrame

InitSubmit == InitPipeline(1) /\ InitIdem /\ InitSvc

NextSubmit ==
    \/ CheckIdempotency
    \/ CreateJob
    \/ StoreIdempotency
    \/ RedisToggle
    \/ CorruptEntry
    \/ Tick

SpecSubmit == InitSubmit /\ [][NextSubmit]_vars

\* submissions against a failing cache, at one instant
NextFailOpen ==
    \/ CheckIdempotency
    \/ CreateJob
    \/ StoreIdempotency
    \/ RedisToggle
    \/ CorruptEntry

SpecFailOpen == InitSubmit /\ [][NextFailOpen]_vars

(***************************************************************************)
(* CircuitBreaker.call: callers on one event loop share one breaker.  The   *)
(* lock is held only across code that never suspends, so _check_state with  *)
(* the is_open test, and each _record_*, run without interleaving; the      *)
(* wrapped operation is where a call suspends.                              *)
(***************************************************************************)
BreakerFrame ==
    UNCHANGED <<pipelineVars, idemVars, dlqVars, promptVars, sceneVars, parseVars,
                extraVars>>

\* call(): _check_state, then CircuitBreakerOpen when open, else func starts
call(c) ==
    /\ call_pc[c] = "idle"
    /\ calls_made < MaxCalls
    /\ calls_made' = calls_made + 1
    /\ last_caller' = c
    /\ LET b == _check_state(breaker, time_now)
       IN /\ breaker' = b
          /\ IF is_open(b)
             THEN /\ call_outcome' = [call_outcome EXCEPT ![c] = "CircuitBreakerOpen"]
                  /\ call_retry_after' =
                        [call_retry_after EXCEPT ![c] = retry_after(b, time_now)]
                  /\ UNCHANGED <<call_pc, call_admitted, invoked>>
             ELSE /\ call_pc' = [call_pc EXCEPT ![c] = "in_flight"]
                  /\ call_admitted' = [call_admitted EXCEPT ![c] = b.state]
                  /\ call_outcome' = [call_outcome EXCEPT ![c] = None]
                  /\ invoked' = invoked + 1
                  /\ UNCHANGED call_retry_after
          /\ ho_successes' = IF is_half_open(b) /\ ~is_half_open(breaker)
                             THEN 0 ELSE ho_successes
    /\ UNCHANGED <<time_now, streak>>
    /\ BreakerFrame

\* func returned: _record_success, the result goes to the caller
func_returns(c) ==
    /\ call_pc[c] = "in_flight"
    /\ breaker' = _record_success(breaker)
    /\ call_pc' = [call_pc EXCEPT ![c] = "idle"]
    /\ call_outcome' = [call_outcome EXCEPT ![c] = "ok"]
    /\ streak' = 0
    /\ ho_successes' = IF is_half_open(breaker) THEN ho_successes + 1 ELSE ho_successes
    /\ last_caller' = c
    /\ UNCHANGED <<time_now, call_admitted, call_retry_after, calls_made, invoked>>
    /\ BreakerFrame

\* func raised: _record_failure, the exception is re-raised to the caller
func_raises(c) ==
    /\ call_pc[c] = "in_flight"
    /\ breaker' = _record_failure(breaker, time_now)
    /\ call_pc' = [call_pc EXCEPT ![c] = "idle"]
    /\ call_outcome' = [call_outcome EXCEPT ![c] = "raised"]
    /\ streak' = streak + 1
    /\ last_caller' = c
    /\ UNCHANGED <<time_now, call_admitted, call_retry_after, calls_made, invoked,
                   ho_successes>>
    /\ BreakerFrame

\* time passes
BreakerTick ==
    /\ time_now < StartTime + MaxTicks * TimeStep
    /\ time_now' = time_now + TimeStep
    /\ last_caller' = 0
    /\ UNCHANGED <<breaker, call_pc, call_admitted, call_outcome, call_retry_after,
                   calls_made, invoked, streak, ho_successes>>
    /\ BreakerFrame

InitBreakerSpec == InitPipeline(1) /\ InitIdem /\ redis_up /\ InitSvc

NextBreaker ==
    \/ \E c \in Callers : call(c)
    \/ \E c \in Callers : func_returns(c)
    \/ \E c \in Callers : func_raises(c)
    \/ BreakerTick

SpecBreaker == InitBreakerSpec /\ [][NextBreaker]_vars

\* The "anthropic" breaker is the only one the repository creates; the API's
\* ScriptGeneratorService._call_anthropic calls through it while the worker
\* runs the pipeline against the same provider.  The provider is down: the
\* calls the API lets through fail.
ApiCaller == 1

NextProviders ==
    \/ OrchestratorStep
    \/ call(ApiCaller)
    \/ func_raises(ApiCaller)
    \/ BreakerTick

SpecProviders == InitBreakerSpec /\ [][NextProviders]_vars

\* the pipeline run for a listing whose free-text fields the user typed
InitPromptSpec ==
    /\ InitPipeline(1) /\ InitIdem /\ redis_up /\ InitBreaker /\ InitDlq
    /\ InitScenes /\ InitParse /\ InitExtra
    /\ listing_data \in Listings
    /\ llm_prompt = << >>

NextPromptSpec == OrchestratorStep

SpecPrompt == InitPromptSpec /\ [][NextPromptSpec]_vars

(***************************************************************************)
(* Dead-letter store under many permanent failures, and replay from it      *)
(***************************************************************************)
\* permanent failures a run adds to the store it starts from
MaxNewFailures == 6

\* failures the store has already taken when a run starts: none, or nearly
\* DLQ_KEEP of them
Prefills == {0, DLQ_KEEP - 2}

\* ids a replay is asked for: the oldest failures, the latest one, and the
\* one DLQ_KEEP failures back
ReplayIds == {1, 2, 3, 4, failed_total, failed_total - DLQ_KEEP}

ArgSizes == <<2, 2, 2, 640>>

KwargSizes == <<120, max_length, max_length + 1, 2400>>

\* the arguments the task with this id was called with
ArgsOf(task_id) == JsonValue(<<"args", task_id>>, ArgSizes[(task_id % 4) + 1])

KwargsOf(task_id) == JsonValue(<<"kwargs", task_id>>, KwargSizes[(task_id % 4) + 1])

DlqFrame ==
    UNCHANGED <<scenes_data, jobVars, runVars, countVars, queue_msg, task_state,
                retries, attempts_raised, worker_lost, clientVars, idemVars,
                breakerVars, promptVars, sceneVars, parseVars, extraVars>>

\* the failure handle_task_failure records for the task with this id
FailureOf(task_id) ==
    FailureRecord(task_id, "boom", ArgsOf(task_id), KwargsOf(task_id))

\* a task failed for good: the task_failure signal runs handle_task_failure
TaskFailsPermanently ==
    /\ \E pre \in Prefills :
          pre <= failed_total /\ failed_total < pre + MaxNewFailures
    /\ failed_total' = failed_total + 1
    /\ handle_task_failure(failed_total + 1, "boom",
                           ArgsOf(failed_total + 1), KwargsOf(failed_total + 1))
    /\ UNCHANGED replayed
    /\ DlqFrame

\* get_dlq_failure_by_id: hget from keylia:dlq:by_id
get_dlq_failure_by_id(task_id) ==
    IF task_id \in DOMAIN dlq_by_id THEN dlq_by_id[task_id] ELSE NoFailure

\* retry_failed_task: look the failure up, json.loads its args and kwargs,
\* send_task; False when not found or when anything raised
retry_failed_task(task_id) ==
    /\ LET failure == get_dlq_failure_by_id(task_id)
       IN replayed' =
             IF failure = NoFailure
             THEN [task_id |-> task_id, found |-> FALSE, result |-> FALSE,
                   sent |-> NoSend]
             ELSE IF Deserializable(failure.args) /\ Deserializable(failure.kwargs)
             THEN [task_id |-> task_id, found |-> TRUE, result |-> TRUE,
                   sent |-> [task_name |-> failure.task_name,
                             args |-> ArgsLoads(failure.args),
                             kwargs |-> ArgsLoads(failure.kwargs)]]
             ELSE [task_id |-> task_id, found |-> TRUE, result |-> FALSE,
                   sent |-> NoSend]
    /\ UNCHANGED <<failed_total, dlq_failures, dlq_by_id>>
    /\ DlqFrame

\* the store after `pre` tasks, ids 1 .. pre, failed for good one by one
InitDlqSpec ==
    /\ InitRun(1) /\ InitIdem /\ redis_up /\ InitBreaker /\ InitPrompt
    /\ InitScenes /\ InitParse /\ InitExtra
    /\ replayed = NoReplay
    /\ \E pre \in Prefills :
          /\ failed_total = pre
          /\ dlq_failures = [i \in 1 .. pre |-> FailureOf(i)]
          /\ dlq_by_id = [i \in 1 .. pre |-> FailureOf(i)]

NextDlq ==
    \/ TaskFailsPermanently
    \/ \E task_id \in ReplayIds : retry_failed_task(task_id)

SpecDlq == InitDlqSpec /\ [][NextDlq]_vars

(***************************************************************************)
(* generate_tour_video_from_listing: photo order, scene configuration,      *)
(* Scene rows, scenes_data handed to the task                               *)
(***************************************************************************)
MaxUsablePhotos == 9

\* an id no photo of the listing has
UnknownPhoto == 0

Reverse(seq) == [i \in 1 .. Len(seq) |-> seq[Len(seq) + 1 - i]]

\* request.photo_order values tried for photos 1 .. p: none, the reverse
\* order, the first photo only, an unknown id only
PhotoOrders(p) == {<< >>, Reverse([i \in 1 .. p |-> i]), <<1>>, <<UnknownPhoto>>}

\* photos = ordered_photos if ordered_photos else photos
ApplyPhotoOrder(found, photo_order) ==
    LET ordered_photos == SelectSeq(photo_order, LAMBDA id : id \in 1 .. Len(found))
    IN IF photo_order # << >> /\ ordered_photos # << >> THEN ordered_photos ELSE found

\* variant: scenes start one slot late
SceneShifted(i, photo, scene_duration_ms) ==
    [sequence_order |-> i, start_time_ms |-> (i + 1) * scene_duration_ms,
     duration_ms |-> scene_duration_ms, media_asset_id |-> photo]

\* Scene(sequence_order=i, start_time_ms=i * scene_duration_ms, ...)
Scene(i, photo, scene_duration_ms) ==
    [sequence_order |-> i, start_time_ms |-> i * scene_duration_ms,
     duration_ms |-> scene_duration_ms, media_asset_id |-> photo]

SceneFrame ==
    UNCHANGED <<jobVars, runVars, countVars, queueVars, clientVars, idemVars,
                breakerVars, dlqVars, promptVars, parseVars, extraVars>>

\* one iteration of: for i, photo in enumerate(photos[:scene_count])
CreateScene ==
    /\ scenes_pc = "scenes"
    /\ LET config == DURATION_SCENE_CONFIG[duration_seconds]
           scene_count == SceneCount(duration_seconds, Len(photos))
           used == SubSeq(photos, 1, Min(scene_count, Len(photos)))
           i == Len(scenes)
       IN IF i < Len(used)
          THEN /\ scenes' = Append(scenes, Scene(i, used[i + 1], config.scene_duration_ms))
               /\ UNCHANGED <<scenes_pc, scene_count_setting>>
          ELSE /\ scenes_pc' = "enqueue"
               /\ scene_count_setting' = scene_count
               /\ UNCHANGED scenes
    /\ UNCHANGED <<duration_seconds, photos, scenes_data>>
    /\ SceneFrame

\* scenes_data: one entry per scene; generate_tour_video_task.delay(...)
EnqueueScenes ==
    /\ scenes_pc = "enqueue"
    /\ scenes_pc' = "done"
    /\ scenes_data' = [i \in 1 .. Len(scenes) |-> scenes[i].sequence_order]
    /\ UNCHANGED <<duration_seconds, photos, scenes, scene_count_setting>>
    /\ SceneFrame

\* a request with a duration, for a listing with p photos and a photo_order
InitScenesSpec ==
    /\ InitRun(1) /\ InitIdem /\ redis_up /\ InitBreaker /\ InitDlq /\ InitPrompt
    /\ InitParse /\ InitExtra
    /\ dlq_failures = << >> /\ dlq_by_id = << >>
    /\ duration_seconds \in Durations
    /\ \E p \in 1 .. MaxUsablePhotos : \E photo_order \in PhotoOrders(p) :
          photos = ApplyPhotoOrder([i \in 1 .. p |-> i], photo_order)
    /\ scenes = << >>
    /\ scene_count_setting = 0
    /\ scenes_pc = "scenes"

NextScenes ==
    \/ CreateScene
    \/ EnqueueScenes

SpecScenes == InitScenesSpec /\ [][NextScenes]_vars

(***************************************************************************)
(* generate_script_sync: recovering the script from the response text.      *)
(* The text is a sequence of tokens; JSON is null, a string, an array of at *)
(* most one value, an object of at most one member.                         *)
(***************************************************************************)
MaxTextLen == 3

LB == "{"
RB == "}"
LS == "["
RS == "]"
QT == "\""
KEY == "\"k\":"
NULL == "null"
\* three backticks
FENCE == "<fence>"
JSONTAG == "json"
WORD == "text"

Alphabet == {LB, RB, LS, RS, QT, KEY, NULL, FENCE, JSONTAG, WORD, SP, NL}

RECURSIVE SkipWs(_, _)
\* the first position from i on that holds no whitespace
SkipWs(text, i) == IF Tok(text, i) \in Whitespace THEN SkipWs(text, i + 1) ELSE i

RECURSIVE FirstOf(_, _, _)
\* the first position from i on that holds tok; 0 if none
FirstOf(text, tok, i) ==
    IF i > Len(text) THEN 0
    ELSE IF text[i] = tok THEN i ELSE FirstOf(text, tok, i + 1)

RECURSIVE LastOf(_, _, _)
\* the last position up to i that holds tok; 0 if none
LastOf(text, tok, i) ==
    IF i < 1 THEN 0
    ELSE IF text[i] = tok THEN i ELSE LastOf(text, tok, i - 1)

Decoded(next, val) == [ok |-> TRUE, next |-> next, val |-> val]

NotDecoded == [ok |-> FALSE, next |-> 0, val |-> << >>]

RECURSIVE raw_decode(_, _)
\* the JSON value that starts at position i (after whitespace) and where it
\* ends; the value keeps its tokens, without the whitespace between them
raw_decode(text, i0) ==
    LET i == SkipWs(text, i0)
        t == Tok(text, i)
    IN CASE t = NULL -> Decoded(i + 1, <<NULL>>)
         [] t = QT ->
              LET j == FirstOf(text, QT, i + 1)
              IN IF j = 0 THEN NotDecoded ELSE Decoded(j + 1, SubSeq(text, i, j))
         [] t = LS ->
              LET k == SkipWs(text, i + 1)
              IN IF Tok(text, k) = RS THEN Decoded(k + 1, <<LS, RS>>)
                 ELSE LET e == raw_decode(text, k)
                      IN IF e.ok /\ Tok(text, SkipWs(text, e.next)) = RS
                         THEN Decoded(SkipWs(text, e.next) + 1, <<LS>> \o e.val \o <<RS>>)
                         ELSE NotDecoded
         [] t = LB ->
              LET k == SkipWs(text, i + 1)
              IN IF Tok(text, k) = RB THEN Decoded(k + 1, <<LB, RB>>)
                 ELSE IF Tok(text, k) # KEY THEN NotDecoded
                 ELSE LET e == raw_decode(text, k + 1)
                      IN IF e.ok /\ Tok(text, SkipWs(text, e.next)) = RB
                         THEN Decoded(SkipWs(text, e.next) + 1, <<LB, KEY>> \o e.val \o <<RB>>)
                         ELSE NotDecoded
         [] OTHER -> NotDecoded

JSONDecodeError == [kind |-> "JSONDecodeError", value |-> << >>]

ValueError == [kind |-> "ValueError", value |-> << >>]

Returned(value) == [kind |-> "returned", value |-> value]

\* json.loads: one value, whitespace around it, nothing else
script_json_loads(text) ==
    LET e == raw_decode(text, 1)
    IN IF e.ok /\ SkipWs(text, e.next) = Len(text) + 1
       THEN Returned(e.val)
       ELSE JSONDecodeError

NoMatch == [found |-> FALSE, group |-> << >>]

RECURSIVE rstrip_ws(_)
rstrip_ws(text) ==
    IF text # << >> /\ text[Len(text)] \in Whitespace
    THEN rstrip_ws(SubSeq(text, 1, Len(text) - 1))
    ELSE text

\* re.search(fence (?:json)? \s* ([\s\S]*?) \s* fence, text): from the first fence,
\* past "json" and whitespace, up to the whitespace before the next fence
code_block_match(text) ==
    LET open == FirstOf(text, FENCE, 1)
        tagged == IF Tok(text, open + 1) = JSONTAG THEN open + 2 ELSE open + 1
        start == SkipWs(text, tagged)
        close == FirstOf(text, FENCE, start)
    IN IF open = 0 \/ close = 0 THEN NoMatch
       ELSE [found |-> TRUE, group |-> rstrip_ws(SubSeq(text, start, close - 1))]

\* re.search(r'\{[\s\S]*\}', text): from the first "{" to the last "}"
json_match(text) ==
    LET first == FirstOf(text, LB, 1)
        last == LastOf(text, RB, Len(text))
    IN IF first = 0 \/ last < first THEN NoMatch
       ELSE [found |-> TRUE, group |-> SubSeq(text, first, last)]

\* as-is, then the code block, then the braces, else ValueError
generate_script_sync(text) ==
    LET asIs == script_json_loads(text)
        block == code_block_match(text)
        inBlock == IF block.found THEN script_json_loads(block.group) ELSE JSONDecodeError
        braces == json_match(text)
        inBraces == IF braces.found THEN script_json_loads(braces.group) ELSE JSONDecodeError
    IN IF asIs # JSONDecodeError THEN asIs
       ELSE IF inBlock # JSONDecodeError THEN inBlock
       ELSE IF inBraces # JSONDecodeError THEN inBraces
       ELSE ValueError

\* JSON objects, among them ones whose string holds a fence or a brace
JsonObjects ==
    {<<LB, RB>>, <<LB, KEY, NULL, RB>>, <<LB, SP, KEY, SP, NULL, NL, RB>>,
     <<LB, KEY, QT, FENCE, QT, RB>>, <<LB, KEY, QT, RB, QT, RB>>,
     <<LB, KEY, QT, LB, QT, RB>>, <<LB, KEY, LB, RB, RB>>,
     <<LB, KEY, LS, NULL, RS, RB>>, <<LB, KEY, QT, FENCE, SP, FENCE, QT, RB>>}

\* JSON values that are no object
OtherValues ==
    {<<NULL>>, <<LS, RS>>, <<QT, QT>>, <<QT, WORD, QT>>, <<LS, NULL, RS>>}

\* the object in json fences, as the provider wraps it
Fenced(v) == <<FENCE, JSONTAG, NL>> \o v \o <<NL, FENCE>>

\* the ways a value comes wrapped
Shapes(v) ==
    {v, Fenced(v), <<FENCE, NL>> \o v \o <<NL, FENCE>>, <<FENCE>> \o v \o <<FENCE>>,
     <<WORD, SP>> \o v, <<WORD, NL>> \o Fenced(v) \o <<NL, WORD>>,
     <<SP>> \o v \o <<NL>>, SubSeq(v, 1, Len(v) - 1)}

\* response texts: wrapped values and every short token sequence
Responses ==
    UNION {Shapes(v) : v \in JsonObjects \cup OtherValues}
        \cup UNION {[1 .. n -> Alphabet] : n \in 0 .. MaxTextLen}

ParseFrame ==
    UNCHANGED <<pipelineVars, idemVars, breakerVars, dlqVars, promptVars, sceneVars,
                extraVars>>

\* generate_script_sync from response_text = response.content[0].text on
ParseResponse ==
    /\ parse_pc = "parse"
    /\ parse_pc' = "done"
    /\ script_result' = generate_script_sync(response_text)
    /\ UNCHANGED response_text
    /\ ParseFrame

InitParseSpec ==
    /\ InitPipeline(1) /\ InitIdem /\ redis_up /\ InitBreaker /\ InitDlq
    /\ InitPrompt /\ InitScenes /\ InitExtra
    /\ response_text \in Responses
    /\ script_result = NoResult
    /\ parse_pc = "parse"

NextParse == ParseResponse

SpecParse == InitParseSpec /\ [][NextParse]_vars

(***************************************************************************)
(* sanitize_text on texts whose override phrase has separators of any kind  *)
(* between its words                                                        *)
(***************************************************************************)
MaxSepLen == 2

\* what can sit between two words: spaces, newlines, control characters
Separators == UNION {[1 .. n -> {SP, NL, NUL}] : n \in 1 .. MaxSepLen}

\* "ignore previous instructions" with the separators s1 and s2
Phrase(s1, s2) == <<"ignore">> \o s1 \o <<"previous">> \o s2 \o <<"instructions">>

SanitizeInputs ==
    {Phrase(s1, s2) : s1, s2 \in Separators}
        \cup {<<"oak", SP>> \o Phrase(s1, <<SP>>) : s1 \in Separators}
        \cup {BenignText, OverrideAllText, << >>, <<SP, NL>>}

SanFrame ==
    UNCHANGED <<pipelineVars, idemVars, baseSvcVars, streamVars, rateVars, renderVars>>

\* sanitize_text(text, allow_newlines=...) returns
SanitizeCall ==
    /\ san_pc = "call"
    /\ san_pc' = "done"
    /\ san_output' = sanitize_text(san_input, "default", san_allow_newlines)
    /\ UNCHANGED <<san_input, san_allow_newlines>>
    /\ SanFrame

InitSanitizeSpec ==
    /\ InitPipeline(1) /\ InitIdem /\ redis_up /\ InitBaseSvc /\ InitStream /\ InitRate
    /\ InitRender
    /\ san_input \in SanitizeInputs
    /\ san_allow_newlines \in BOOLEAN
    /\ san_output = << >>
    /\ san_pc = "call"

NextSanitize == SanitizeCall

SpecSanitize == InitSanitizeSpec /\ [][NextSanitize]_vars

(***************************************************************************)
(* stream_progress: the event generator polls the job while the task runs   *)
(***************************************************************************)
StreamFrame ==
    UNCHANGED <<pipelineVars, idemVars, baseSvcVars, sanVars, rateVars, renderVars>>

\* one round of event_generator's loop: refresh, a snapshot if
\* progress_percent changed, break on a terminal status, else sleep
StreamPoll ==
    /\ stream_pc = "open"
    /\ IF progress_percent # last_progress
       THEN /\ last_progress' = progress_percent
            /\ emitted' = emitted \cup {status}
       ELSE UNCHANGED <<last_progress, emitted>>
    /\ stream_pc' = IF status \in Terminal THEN "closed" ELSE "open"
    /\ StreamFrame

\* a client has connected to the stream of a queued job
InitStreamSpec ==
    /\ InitPipeline(MaxPhotosJob) /\ InitIdem /\ redis_up /\ InitBaseSvc /\ InitSan
    /\ InitRate /\ InitRender
    /\ stream_pc = "open"
    /\ last_progress = -1
    /\ emitted = {}

NextStream ==
    \/ OrchestratorStep
    \/ cancel_tour_video
    \/ StreamPoll

SpecStream == InitStreamSpec /\ [][NextStream]_vars

(***************************************************************************)
(* RateLimitMiddleware.dispatch: sliding window per key, Redis first, the   *)
(* in-memory store when Redis is not there.  Clock readings of different    *)
(* requests are taken to give different sorted-set members.                 *)
(***************************************************************************)
MaxRlRequests == 22

MaxRlTicks == 2

\* app.add_middleware(RateLimitMiddleware, ai_limit=20, ai_window=60)
ai_limit == 20

ai_window == 60

\* the clock advances in steps of half a window
RlStep == ai_window \div 2

HTTP_429_TOO_MANY_REQUESTS == 429

\* _check_rate_limit_redis: zremrangebyscore(key, 0, window_start), zadd
after_redis_check(members, t, window) ==
    Append(SelectSeq(members, LAMBDA ts : ts > t - window), t)

\* MemoryRateLimitStore.get_and_update: old timestamps go, the request is
\* recorded only while the count is below the limit
get_and_update(entry, t, limit, window) ==
    LET kept == SelectSeq(entry, LAMBDA ts : ts > t - window)
    IN IF Len(kept) < limit THEN Append(kept, t) ELSE kept

RateFrame ==
    UNCHANGED <<pipelineVars, idemVars, baseSvcVars, sanVars, streamVars, renderVars>>

\* dispatch: count the request with the backend at hand, answer 429 when
\* current_count > limit, else call_next
dispatch ==
    /\ rl_requests < MaxRlRequests
    /\ rl_requests' = rl_requests + 1
    /\ IF redis_up
       THEN /\ zset' = after_redis_check(zset, rl_now, ai_window)
            /\ UNCHANGED timestamps
       ELSE /\ timestamps' = get_and_update(timestamps, rl_now, ai_limit, ai_window)
            /\ UNCHANGED zset
    /\ LET current_count == IF redis_up THEN Len(zset') ELSE Len(timestamps')
       IN IF current_count > ai_limit
          THEN /\ rl_status' = HTTP_429_TOO_MANY_REQUESTS
               /\ UNCHANGED forwarded
          ELSE /\ rl_status' = 200
               /\ forwarded' = Append(forwarded, rl_now)
    /\ UNCHANGED rl_now
    /\ RateFrame

\* time passes
RateTick ==
    /\ rl_now < MaxRlTicks * RlStep
    /\ rl_now' = rl_now + RlStep
    /\ UNCHANGED <<zset, timestamps, forwarded, rl_status, rl_requests>>
    /\ RateFrame

InitRateSpec ==
    /\ InitPipeline(1) /\ InitIdem /\ InitBaseSvc /\ InitSan /\ InitStream /\ InitRate
    /\ InitRender

NextRate ==
    \/ dispatch
    \/ RateTick
    \/ RedisToggle

SpecRate == InitRateSpec /\ [][NextRate]_vars

\* the middleware with Redis there throughout
NextRateRedis ==
    \/ redis_up /\ dispatch
    \/ RateTick

InitRateRedis == InitRateSpec /\ redis_up

SpecRateRedis == InitRateRedis /\ [][NextRateRedis]_vars

(***************************************************************************)
(* create_render_job and render_video_task (the generic render endpoint),   *)
(* next to a tour-video job                                                 *)
(***************************************************************************)
MaxRenderScenes == 2

RenderFrame ==
    UNCHANGED <<pipelineVars, idemVars, baseSvcVars, sanVars, streamVars, rateVars>>

\* create_render_job: RenderJob(status=QUEUED) committed, render_video_task.delay
create_render_job ==
    /\ render_pc = "none"
    /\ render_status' = "queued"
    /\ render_task_state' = "PENDING"
    /\ render_pc' = "sent"
    /\ UNCHANGED generated_clips
    /\ RenderFrame

\* a worker starts render_video_task: update_state(state="PROGRESS", ...)
RenderBegin ==
    /\ render_pc = "sent"
    /\ render_task_state' = "PROGRESS"
    /\ render_pc' = "clips"
    /\ UNCHANGED <<render_status, generated_clips>>
    /\ RenderFrame

\* fal_service.generate_scene_video for the next scene returns or raises
RenderClip ==
    /\ render_pc = "clips"
    /\ \E ok \in BOOLEAN :
          IF ok
          THEN /\ generated_clips' = generated_clips + 1
               /\ render_pc' = IF generated_clips + 1 = MaxRenderScenes
                               THEN "voiceover" ELSE "clips"
          ELSE /\ render_pc' = "except"
               /\ UNCHANGED generated_clips
    /\ UNCHANGED <<render_status, render_task_state>>
    /\ RenderFrame

\* generate_voiceover_async returns or raises
RenderVoiceover ==
    /\ render_pc = "voiceover"
    /\ \E ok \in BOOLEAN : render_pc' = IF ok THEN "composite" ELSE "except"
    /\ UNCHANGED <<render_status, render_task_state, generated_clips>>
    /\ RenderFrame

\* composite_final_video returns (the task returns its result) or raises
RenderComposite ==
    /\ render_pc = "composite"
    /\ \E ok \in BOOLEAN :
          IF ok
          THEN /\ render_pc' = "done"
               /\ render_task_state' = "SUCCESS"
          ELSE /\ render_pc' = "except"
               /\ UNCHANGED render_task_state
    /\ UNCHANGED <<render_status, generated_clips>>
    /\ RenderFrame

\* except Exception as e: self.update_state(state="FAILURE", ...); raise
RenderExcept ==
    /\ render_pc = "except"
    /\ render_task_state' = "FAILURE"
    /\ render_pc' = "done"
    /\ UNCHANGED <<render_status, generated_clips>>
    /\ RenderFrame

RenderStep ==
    \/ create_render_job
    \/ RenderBegin
    \/ RenderClip
    \/ RenderVoiceover
    \/ RenderComposite
    \/ RenderExcept

InitRenderSpec ==
    /\ InitPipeline(MaxPhotosJob) /\ InitIdem /\ redis_up /\ InitSvc

NextRender ==
    \/ OrchestratorStep
    \/ RenderStep

\* workers keep running, provider calls return or raise
SpecRender ==
    /\ InitRenderSpec
    /\ [][NextRender]_vars
    /\ WF_vars(OrchestratorStep)
    /\ WF_vars(RenderStep)

(***************************************************************************)
(* Properties                                                              *)
(***************************************************************************)

AllowedEdges ==
    {<<"queued", "processing">>, <<"queued", "cancelled">>,
     <<"processing", "completed">>, <<"processing", "failed">>,
     <<"processing", "cancelled">>}

\* C1: the status of a RenderJob changes only along queued -> processing ->
\* {completed, failed, cancelled} or queued -> cancelled, under retries,
\* redeliveries and cancel requests; a terminal status never changes again.
C1_StatusStateMachine ==
    [][status' # status => <<status, status'>> \in AllowedEdges]_vars

\* C2: the progress_percent values read by successive polls while the status
\* is processing never decrease, across all attempts of the task, and a job
\* that is completed stands at 100.
C2_ProgressMonotone ==
    [][/\ polled_progress' >= polled_progress
       /\ (status' = "completed" => progress_percent' = 100)]_vars

\* C3: once cancel_tour_video has hit a job that was processing, the job stays
\* cancelled and no output_url is written for it.
C3_CancelSticks ==
    [][cancelled_in = "processing" =>
          /\ status' = "cancelled"
          /\ output_url' = output_url]_vars

FanOutOver ==
    \/ pc \in {"videos_completed", "composition_begin", "composite_call",
                "composition_completed", "progress_90", "upload_begin",
                "upload_call", "upload_completed", "project_content",
                "mark_completed", "return"}
    \/ pc \in {"except", "reraise"} /\ exc = "Failed during parallel generation"

SceneOrder == [i \in 1 .. N |-> i - 1]

\* C4: an attempt's fan-out issues exactly N scene-clip requests and exactly
\* one voiceover request, and the clips handed to composition, and the order
\* in which they are concatenated, are in scene order 0..N-1 whatever order
\* the clip generations completed in.
C4_FanOut ==
    /\ clip_requests <= N
    /\ voiceover_requests <= 1
    /\ FanOutOver => clip_requests = N /\ voiceover_requests = 1
    /\ pc = "composite_call" => ConcatOrder(video_clips) = SceneOrder
    /\ composed # << >> => composed = SceneOrder

\* C4 witness: a video was composed from three or more clips that did not
\* complete in scene order
C4_Witness ==
    /\ N >= 3
    /\ out_of_order
    /\ composed = SceneOrder
    /\ clip_requests = N

BranchRaised ==
    \/ voiceover_future = "raised"
    \/ \E i \in DOMAIN video_futures : video_futures[i] = "raised"

AllBranchesOk ==
    /\ voiceover_future = "ok"
    /\ DOMAIN video_futures = SceneIdx
    /\ \A i \in SceneIdx : video_futures[i] = "ok"

\* C5: composition is invoked only after the voiceover and all N clip
\* generations of the attempt returned successfully; when a branch raised,
\* the attempt invokes neither composition nor upload and ends with the job
\* marked failed.
C5_AllOrNothing ==
    /\ (pc = "composite_call" \/ compose_calls > 0) => AllBranchesOk
    /\ BranchRaised => compose_calls = 0 /\ upload_calls = 0
    /\ BranchRaised /\ pc \in {"reraise", "idle"} => status = "failed"

\* C5 witness: an attempt ended failed after one clip raised while another
\* clip and the voiceover had succeeded
C5_Witness ==
    /\ pc = "reraise"
    /\ status = "failed"
    /\ voiceover_future = "ok"
    /\ \E i, j \in DOMAIN video_futures :
          video_futures[i] = "raised" /\ video_futures[j] = "ok"

\* C6: within one job at most MAX_PARALLEL_VIDEO_GENERATIONS scene-clip
\* generation calls are in flight at any time.
C6_ClipConcurrencyBound == ClipsInFlight <= MAX_PARALLEL_VIDEO_GENERATIONS

C8_FailureHandling ==
    [][/\ pc \in {"pool_shutdown", "except", "reraise"} =>
             progress_percent' = progress_percent
       /\ pc' = "except" => failed_writes' = 0 /\ exc' # None
       /\ pc' = "reraise" =>
             /\ failed_writes' = 1
             /\ status' = "failed"
             /\ error_message' = exc'
       /\ (pc = "reraise" /\ pc' # pc /\ worker_lost' = worker_lost) =>
             attempts_raised' = attempts_raised + 1]_vars

\* C8 witness: the fan-out raised after progress had been made, and the
\* attempt is about to re-raise with the failure recorded
C8_Witness ==
    /\ pc = "reraise"
    /\ failed_writes = 1
    /\ error_message = "Failed during parallel generation"
    /\ progress_percent > 20

Done2(r) == req_pc[r] = "done"

CreatedBy(r) == {i \in DOMAIN created : created[i].by = r}

\* C9: two submissions with the same X-Idempotency-Key within the TTL, also
\* when they overlap in time, create one job between them and receive the
\* same response; a submission that finds the key expired creates a new job.
C9_SameKeyOneJob ==
    \A r1, r2 \in Requests :
       (/\ r1 # r2
        /\ Done2(r1) /\ Done2(r2)
        /\ req_key[r1] # 0 /\ req_key[r1] = req_key[r2]
        /\ req_org[r1] = LISTING_ORG /\ req_org[r2] = LISTING_ORG
        /\ ~req_fault[r1] /\ ~req_fault[r2]
        /\ req_at[r1] <= req_at[r2]
        /\ req_at[r2] - req_at[r1] < IDEMPOTENCY_TTL)
       => /\ req_response[r1] = req_response[r2]
          /\ Cardinality(CreatedBy(r1) \cup CreatedBy(r2)) = 1

\* C10: a submission with an idempotency key that met a cache failure
\* (unreachable cache, failing read or write, unparseable value) still
\* creates the job, enqueues the task and returns the acceptance response;
\* no request is answered with a server error.
C10_FailOpen ==
    \A r \in Requests :
       /\ req_response[r].http # 500
       /\ (Done2(r) /\ req_fault[r] /\ req_org[r] = LISTING_ORG) =>
             /\ req_response[r].http = 200
             /\ req_response[r].status = "queued"
             /\ \E i \in CreatedBy(r) :
                   /\ i \in enqueued
                   /\ req_response[r].render_job_id = created[i].id
                   /\ created[i].key = req_key[r]

\* C10 witness: a request that read an unparseable cached value was accepted
\* and its task enqueued while the cache was down for the write
C10_Witness ==
    \E r \in Requests :
       /\ Done2(r)
       /\ req_key[r] # 0
       /\ req_fault[r]
       /\ ~redis_up
       /\ req_response[r].http = 200
       /\ req_response[r].render_job_id \in enqueued

\* a call of CircuitBreaker.call begins in this step
CallBegins == calls_made' = calls_made + 1

\* the call that begins in this step is refused and the operation not invoked
Refused ==
    /\ invoked' = invoked
    /\ call_pc' = call_pc
    /\ call_outcome'[last_caller'] = "CircuitBreakerOpen"

\* func returned, or raised, in this step
StepReturned ==
    \E c \in Callers :
       call_pc[c] = "in_flight" /\ call_pc'[c] = "idle" /\ call_outcome'[c] = "ok"

StepRaised ==
    \E c \in Callers :
       call_pc[c] = "in_flight" /\ call_pc'[c] = "idle" /\ call_outcome'[c] = "raised"

SinceLastFailure == time_since_last_failure(breaker, time_now)

\* C11: once failure_threshold failed calls in a row were recorded, the
\* breaker is open for as long as less than recovery_timeout has passed since
\* the last recorded failure, and every call begun on the open breaker in that
\* window raises CircuitBreakerOpen with the remaining time and does not
\* invoke the wrapped operation.
C11_OpenFailsFast ==
    [][/\ (streak >= failure_threshold /\ SinceLastFailure < recovery_timeout)
             => is_open(breaker)
       /\ (is_open(breaker) /\ SinceLastFailure < recovery_timeout /\ CallBegins)
             => /\ Refused
                /\ call_retry_after'[last_caller'] = recovery_timeout - SinceLastFailure
                /\ call_retry_after'[last_caller'] > 0]_vars

\* C11 witness: with five failures in a row recorded, a call made half a
\* recovery_timeout later was refused with the remaining half as retry-after
C11_Witness ==
    \E c \in Callers :
       /\ last_caller = c
       /\ streak >= failure_threshold
       /\ call_outcome[c] = "CircuitBreakerOpen"
       /\ call_retry_after[c] = recovery_timeout - TimeStep
       /\ invoked = failure_threshold

\* calls let through in half-open that have not ended
Trials ==
    {c \in Callers : call_pc[c] = "in_flight" /\ call_admitted[c] = "half_open"}

\* C12: while a trial call let through in half-open is in flight, any other
\* call on the breaker raises CircuitBreakerOpen and does not invoke the
\* wrapped operation.
C12_SingleTrial ==
    [][(is_half_open(breaker) /\ Trials # {} /\ CallBegins) => Refused]_vars

\* C13: a half-open breaker closes, counters at 0, exactly when the
\* success_threshold-th success since it went half-open is recorded; it opens
\* exactly when a failure is recorded, the failure counter not reset; and it
\* leaves half-open in no other way.
C13_HalfOpenExits ==
    [][is_half_open(breaker) =>
          /\ breaker'.state = "closed"
                <=> (StepReturned /\ ho_successes' = success_threshold)
          /\ breaker'.state = "closed"
                => breaker'.failure_count = 0 /\ breaker'.success_count = 0
          /\ breaker'.state = "open" <=> StepRaised
          /\ breaker'.state = "open"
                => breaker'.failure_count = breaker.failure_count + 1
          /\ ho_successes < success_threshold]_vars

\* C13 witness: the breaker closed again on the second success after it had
\* opened and gone half-open
C13_Witness ==
    /\ breaker.state = "closed"
    /\ ho_successes = success_threshold
    /\ breaker.failure_count = 0
    /\ breaker.success_count = 0
    /\ calls_made >= failure_threshold + success_threshold

\* C14: a closed breaker opens only when failure_threshold failures in a row,
\* with no successful call between them, have been recorded.
C14_ConsecutiveFailures ==
    [][(breaker.state = "closed" /\ breaker'.state = "open")
          => streak' >= failure_threshold]_vars

\* generate_script_sync reaches client.messages.create in this step
ScriptProviderCalled == pc = "script_call" /\ pc' # pc

\* C15: while the script provider's breaker is open and recovery_timeout has
\* not passed, the pipeline's script step does not call the provider.
C15_ProvidersBehindBreaker ==
    [][(is_open(breaker) /\ SinceLastFailure < recovery_timeout)
          => ~ScriptProviderCalled]_vars

\* task ids whose failure record can be read back by id
RetrievableById == DOMAIN dlq_by_id

\* C16: the dead-letter store holds at most DLQ_KEEP records, the most recent
\* ones, in the recency-ordered list and among the records retrievable by
\* task id alike.
C16_DlqBounded ==
    /\ Len(dlq_failures) <= DLQ_KEEP
    /\ \A i \in 1 .. Len(dlq_failures) :
          dlq_failures[i].task_id = failed_total - Len(dlq_failures) + i
    /\ Cardinality(RetrievableById) <= DLQ_KEEP
    /\ \A task_id \in RetrievableById : task_id > failed_total - DLQ_KEEP

\* C17: a replay of a recorded failure re-submits the task under the same
\* name with exactly the positional and keyword arguments of the original
\* call, whatever their size.
C17_ReplayFaithful ==
    replayed.found =>
       /\ replayed.result
       /\ replayed.sent = [task_name |-> "generate_tour_video",
                           args |-> ArgsOf(replayed.task_id),
                           kwargs |-> KwargsOf(replayed.task_id)]

\* C18: the text sent to the LLM is built from the sanitized listing fields,
\* and holds no instruction-override phrase that a listing field contained.
C18_PromptSanitized ==
    llm_prompt # << >> =>
       /\ llm_prompt = user_prompt(sanitize_listing_data(listing_data))
       /\ ~ContainsOverride(llm_prompt)

\* the scene count and scene length the duration stands for
ExpectedSceneCount(d) == CASE d = 15 -> 3 [] d = 30 -> 5 [] d = 60 -> 8

ExpectedSceneMs(d) == CASE d = 15 -> 5000 [] d = 30 -> 6000 [] d = 60 -> 7500

\* C19: a submission with duration d and p usable photos creates
\* min(c(d), p) scenes, c = {15: 3, 30: 5, 60: 8}, each 5000, 6000 or 7500 ms
\* long, numbered 0..n-1 in sequence_order, starting at sequence_order times
\* the scene duration; the task gets one scenes_data entry per scene.
C19_SceneLayout ==
    /\ \A i \in 1 .. Len(scenes) :
          /\ scenes[i].sequence_order = i - 1
          /\ scenes[i].duration_ms = ExpectedSceneMs(duration_seconds)
          /\ scenes[i].start_time_ms = (i - 1) * ExpectedSceneMs(duration_seconds)
          /\ scenes[i].media_asset_id = photos[i]
    /\ scenes_pc \in {"enqueue", "done"} /\ photos # << >> =>
          /\ Len(scenes) = Min(ExpectedSceneCount(duration_seconds), Len(photos))
          /\ scene_count_setting = Len(scenes)
    /\ scenes_pc = "done" /\ photos # << >> =>
          scenes_data = [i \in 1 .. Len(scenes) |-> i - 1]

\* C19 witness: a 60-second request with nine photos got eight scenes, the
\* last one starting at 52500 ms
C19_Witness ==
    /\ scenes_pc = "done"
    /\ duration_seconds = 60
    /\ Len(photos) = 9
    /\ Len(scenes_data) = 8
    /\ scenes[8].start_time_ms = 52500

\* C20: an object in json fences gives what the bare object gives, and a
\* response no JSON object can be recovered from (here: one without any "{")
\* makes generate_script_sync raise ValueError, not return something.
C20_FencedOrRaise ==
    parse_pc = "done" =>
        /\ \A v \in JsonObjects :
              response_text = Fenced(v) => script_result = script_json_loads(v)
        /\ FirstOf(response_text, LB, 1) = 0 => script_result = ValueError

\* the first half of C20 alone
C20_FencedSame ==
    parse_pc = "done" =>
        \A v \in JsonObjects :
            response_text = Fenced(v) =>
                script_result = script_json_loads(v) /\ script_result.kind = "returned"

\* C23: whatever the input, control characters, newlines and repeated
\* whitespace inside a phrase included, the text sanitize_text returns holds
\* no match of an instruction-override pattern.
C23_OutputHasNoOverride ==
    san_pc = "done" => ~ContainsOverride(san_output)

\* C24: while the breaker is half-open, a call that was admitted while it was
\* closed and completes now changes neither the breaker's state nor its count
\* of trial successes.
C24_StaleCallsIgnored ==
    [][\A c \in Callers :
          (/\ call_pc[c] = "in_flight"
           /\ call_pc'[c] = "idle"
           /\ is_half_open(breaker)
           /\ call_admitted[c] = "closed")
          => (/\ breaker'.state = breaker.state
              /\ breaker'.success_count = breaker.success_count)]_vars

\* C26: once the result loop has seen a branch of the fan-out fail, no scene
\* clip of the attempt that has not started yet is started.
C26_NoStartAfterFailure ==
    [][pc = "pool_shutdown" => clip_requests' = clip_requests]_vars

\* C27: cancel_tour_video on a project whose render job is neither queued nor
\* processing changes no state; checked in the case the claim singles out: the
\* job has completed, and the job and the project stay as they are.
C27_CancelOfFinishedIsNoOp ==
    [][(cancels' = cancels + 1 /\ status = "completed")
          => UNCHANGED <<status, error_message, project_status>>]_vars

\* the step recorded as completed in the sub-step map
StepCompleted(step) ==
    step \in DOMAIN step_progress /\ step_progress[step].status = "completed"

\* C28: while the job is processing, current_step follows the sub-step map:
\* generating_script until the script step is completed, then
\* generating_voiceover, then generating_videos, then compositing.
C28_CurrentStepFollowsMap ==
    status = "processing" =>
        current_step(status, step_progress) =
            IF ~StepCompleted("script") THEN "generating_script"
            ELSE IF ~StepCompleted("voiceover") THEN "generating_voiceover"
            ELSE IF ~StepCompleted("videos") THEN "generating_videos"
            ELSE "compositing"

\* C29: in every state of a job, retries included, the sub-step map shows
\* composition or upload as in_progress or completed only if script, voiceover
\* and videos are all completed.  Runs in which a worker died are left aside.
C29_StepMapInPipelineOrder ==
    worker_lost = 0 =>
    \A step \in {"composition", "upload"} :
        (/\ step \in DOMAIN step_progress
         /\ step_progress[step].status \in {"in_progress", "completed"})
        => (StepCompleted("script") /\ StepCompleted("voiceover") /\ StepCompleted("videos"))

\* C25: a submission is answered with a job's project_id / render_job_id only
\* if its own organization created that job, so the organization owns the
\* listing; reusing an idempotency key never hands out another
\* organization's job.
C25_CacheScopedToOwner ==
    \A r \in Requests :
        (/\ req_pc[r] = "done"
         /\ req_response[r].http = 200
         /\ req_response[r].project_id \in 1 .. Len(created))
        => (/\ created[req_response[r].project_id].org = req_org[r]
            /\ req_org[r] = LISTING_ORG)

\* C21: when the progress stream closes, it has sent a snapshot whose status
\* is the job's terminal status, whatever the job's progress_percent was when
\* it became terminal.
C21_StreamEndsWithTerminalSnapshot ==
    [][(stream_pc = "open" /\ stream_pc' = "closed") => status \in emitted']_vars

\* requests forwarded in the window-long span that ends with forwarded[i]
ForwardedInSpan(i) ==
    Cardinality({j \in 1 .. i : forwarded[j] > forwarded[i] - ai_window})

\* C22: with either backend, at most `limit` requests of a key are forwarded
\* to the application within any span of `window` seconds.
C22_ForwardedWithinLimit ==
    \A i \in 1 .. Len(forwarded) : ForwardedInSpan(i) <= ai_limit

\* C22 with Redis there throughout
C22_RedisWithinLimit ==
    redis_up => \A i \in 1 .. Len(forwarded) : ForwardedInSpan(i) <= ai_limit

\* C30: every RenderJob the API creates in status queued, by the tour-video
\* endpoint or by the generic render endpoint, eventually is completed,
\* failed or cancelled.
C30_QueuedJobsFinish ==
    /\ status = "queued" ~> status \in Terminal
    /\ render_status = "queued" ~> render_status \in Terminal

\* C30 for the tour-video job alone
C30_TourJobFinishes ==
    status = "queued" ~> status \in Terminal

====
